---- MODULE Spec2Model ----
(***************************************************************************)
(* A model of the Banshee desktop backend (src-tauri): the Codex proto     *)
(* bridge (codex_bridge.rs), the session registry commands (lib.rs) and    *)
(* the mutex discipline of the command handlers (lib.rs, terminal.rs).     *)
(*                                                                         *)
(* Three specifications share the module:                                  *)
(*   Spec          one CodexBridge object, its child process, the child's  *)
(*                 stdout/stderr pipes and the two reader threads;         *)
(*   RegistrySpec  SESSION_MANAGER and the start/send/restart/stop         *)
(*                 commands over several sessions;                         *)
(*   LockSpec      the command handlers as threads taking the registry     *)
(*                 mutexes around their blocking calls.                    *)
(***************************************************************************)
EXTENDS Integers, Sequences, FiniteSets, TLC

(***************************************************************************)
(* Bounds of the model.                                                    *)
(***************************************************************************)
MaxLines == 3       \* stdout lines written by children in one behaviour
MaxPipe == 2        \* unread lines a stdout pipe holds at once
MaxErrLines == 1    \* stderr lines written by children in one behaviour
MaxCalls == 3       \* bridge methods called in one behaviour
MaxSpawns == 2      \* child processes spawned in one behaviour

(***************************************************************************)
(* Values.                                                                 *)
(***************************************************************************)
NoChild == 0                          \* Option::None of a Child / ChildStdin
NoModel == "<none>"                   \* Option::None of the session model
DefaultModel == "gpt-5.1-mini"
Dirs == {"/p", "/q"}
ChildEventId == "s1"                  \* an event id of the child's own making

\* HashMap operations.
EmptyMap == [k \in {} |-> 0]
Insert(m, k, v) == [x \in (DOMAIN m) \cup {k} |-> IF x = k THEN v ELSE m[x]]
Remove(m, k) == [x \in (DOMAIN m) \ {k} |-> m[x]]

\* Uuid::new_v4().to_string(): the n-th fresh identifier.
Uuid(n) == "u" \o ToString(n)

(***************************************************************************)
(* CodexBridge: the struct, with the SharedState its reader threads share, *)
(* and the OS side of its child: the stdout pipe (pipe), the stderr pipe   *)
(* (errpipe, a count of unread lines) and whether the stdout reader is     *)
(* still in its loop (reading).                                            *)
(***************************************************************************)
CodexBridge_new ==
  [ process |-> NoChild, stdin |-> NoChild, project_dir |-> "",
    session_model |-> NoModel,
    reasoning_buffers |-> EmptyMap,
    pending_permissions |-> EmptyMap,
    pending_edits |-> EmptyMap,
    stdout_thread |-> FALSE, stderr_thread |-> FALSE,
    pipe |-> <<>>, errpipe |-> 0, reading |-> FALSE ]

ReasoningEntry_default == [buffer |-> "", sequence |-> 0]

\* emit_reasoning_chunk: the entry is created on demand, numbered, appended to,
\* and removed when done; the notification carries the number and the snapshot.
\* (sequence is a u32; its overflow takes 2^32 chunks for one id, more than a
\* TLC integer holds and far beyond MaxLines.)
emit_reasoning_chunk(b, id, chunk, done) ==
  LET buffers == b.reasoning_buffers
      old == IF id \in DOMAIN buffers THEN buffers[id] ELSE ReasoningEntry_default
      entry == [buffer |-> old.buffer \o chunk,
                sequence |-> old.sequence + 1]
      after == IF done THEN Remove(buffers, id) ELSE Insert(buffers, id, entry)
  IN [ b |-> [b EXCEPT !.reasoning_buffers = after],
       out |-> << [type |-> "thinking",
                   id |-> id \o "::" \o ToString(entry.sequence),
                   parentId |-> id, sequence |-> entry.sequence,
                   text |-> chunk, fullText |-> entry.buffer, done |-> done] >> ]

\* emit_exec_permission: the request is registered under "exec:<sub>:<call>".
emit_exec_permission(b, submission_id, req) ==
  LET permission_id == "exec:" \o submission_id \o ":" \o req.call_id
  IN [ b |-> [b EXCEPT !.pending_permissions =
                 Insert(@, permission_id,
                        [submission_id |-> submission_id, kind |-> "Exec"])],
       out |-> << [type |-> "permission:request", id |-> permission_id,
                   tools |-> "bash"] >> ]

\* The loop over req.changes: one edit:proposed per changed file, each with a
\* fresh edit id. r is [ids, out, uuid].
RECURSIVE ProposeEdits(_, _)
ProposeEdits(changes, r) ==
  IF changes = <<>> THEN r
  ELSE LET change == Head(changes)
           edit_id == "edit-" \o Uuid(r.uuid)
           before == IF change.kind = "Delete" THEN change.content ELSE ""
           after == IF change.kind = "Delete" THEN "" ELSE change.content
       IN ProposeEdits(Tail(changes),
            [ ids |-> Append(r.ids, edit_id),
              out |-> Append(r.out, [type |-> "edit:proposed", id |-> edit_id,
                                     file |-> change.path,
                                     before |-> before, after |-> after]),
              uuid |-> r.uuid + 1 ])

\* emit_patch_permission: register the request under "patch:<sub>:<call>", emit
\* the edit proposals, remember their ids under the call id, emit the request.
emit_patch_permission(b, submission_id, req, uuid) ==
  LET permission_id == "patch:" \o submission_id \o ":" \o req.call_id
      b1 == [b EXCEPT !.pending_permissions =
                Insert(@, permission_id,
                       [submission_id |-> submission_id, kind |-> "Patch"])]
      r == ProposeEdits(req.changes, [ids |-> <<>>, out |-> <<>>, uuid |-> uuid])
      b2 == [b1 EXCEPT !.pending_edits = Insert(@, req.call_id, r.ids)]
  IN [ b |-> b2,
       out |-> Append(r.out, [type |-> "permission:request", id |-> permission_id,
                              tools |-> "write"]),
       uuid |-> r.uuid ]

\* A handle_patch_apply_end that reads the call id's edit ids and leaves them
\* in the map.
handle_patch_apply_end_keeping_ids(b, end) ==
  LET ids == IF end.call_id \in DOMAIN b.pending_edits
             THEN b.pending_edits[end.call_id] ELSE <<>>
      event_type == IF end.success THEN "edit:applied" ELSE "edit:rejected"
  IN [ b |-> b,
       out |-> [i \in 1..Len(ids) |-> [type |-> event_type, id |-> ids[i]]] ]

\* handle_patch_apply_end: pop the call id's edit ids, one notification each.
handle_patch_apply_end(b, end) ==
  LET ids == IF end.call_id \in DOMAIN b.pending_edits
             THEN b.pending_edits[end.call_id] ELSE <<>>
      event_type == IF end.success THEN "edit:applied" ELSE "edit:rejected"
  IN [ b |-> [b EXCEPT !.pending_edits = Remove(@, end.call_id)],
       out |-> [i \in 1..Len(ids) |-> [type |-> event_type, id |-> ids[i]]] ]


\* emit_exec_end: the first non-empty of formatted, aggregated, stdout and
\* stderr output, or a synthesized exit line.
emit_exec_end(end) ==
  LET first == IF end.formatted_output # "" THEN end.formatted_output
               ELSE IF end.aggregated_output # "" THEN end.aggregated_output
               ELSE IF end.stdout # "" THEN end.stdout
               ELSE end.stderr
      chunk == IF first = "" THEN "Command exited with code " \o ToString(end.exit_code)
               ELSE first
  IN << [type |-> "tool:output", id |-> end.call_id, chunk |-> chunk,
         done |-> TRUE, exitCode |-> end.exit_code] >>

\* The match on event.msg in handle_proto_line, for a decoded Event.
Dispatch(b, submission_id, msg, uuid) ==
  LET same(out) == [b |-> b, out |-> out, uuid |-> uuid]
      with(r) == [b |-> r.b, out |-> r.out, uuid |-> uuid]
  IN CASE msg.kind = "SessionConfigured" ->
            [ b |-> [b EXCEPT !.session_model = msg.model],
              out |-> << [type |-> "model:update", model |-> msg.model] >>,
              uuid |-> uuid ]
       [] msg.kind = "AgentMessageDelta" ->
            same(<< [type |-> "assistant:delta", chunk |-> msg.text,
                     id |-> submission_id] >>)
       [] msg.kind = "AgentMessage" ->
            same(<< [type |-> "assistant:complete", text |-> msg.text,
                     id |-> submission_id] >>)
       [] msg.kind = "AgentReasoningDelta" ->
            with(emit_reasoning_chunk(b, submission_id, msg.text, FALSE))
       [] msg.kind = "AgentReasoningRawContentDelta" ->
            with(emit_reasoning_chunk(b, submission_id, msg.text, FALSE))
       [] msg.kind = "AgentReasoning" ->
            with(emit_reasoning_chunk(b, submission_id, msg.text, TRUE))
       [] msg.kind = "AgentReasoningRawContent" ->
            with(emit_reasoning_chunk(b, submission_id, msg.text, TRUE))
       [] msg.kind = "AgentReasoningSectionBreak" ->
            with(emit_reasoning_chunk(b, submission_id, "\n\n", FALSE))
       [] msg.kind = "ExecCommandBegin" ->
            same(<< [type |-> "tool:start", id |-> msg.call_id, tool |-> "bash",
                     submissionId |-> submission_id] >>)
       [] msg.kind = "ExecCommandOutputDelta" ->
            same(<< [type |-> "tool:output", id |-> msg.call_id,
                     chunk |-> msg.text, stream |-> msg.stream] >>)
       [] msg.kind = "ExecCommandEnd" -> same(emit_exec_end(msg))
       [] msg.kind = "ExecApprovalRequest" ->
            with(emit_exec_permission(b, submission_id, msg))
       [] msg.kind = "ApplyPatchApprovalRequest" ->
            emit_patch_permission(b, submission_id, msg, uuid)
       [] msg.kind = "PatchApplyEnd" -> with(handle_patch_apply_end(b, msg))
       [] msg.kind = "TokenCount" ->
            same(IF msg.info THEN << [type |-> "telemetry:tokens"] >> ELSE <<>>)
       [] msg.kind = "Error" ->
            same(<< [type |-> "assistant:complete", text |-> "(!) " \o msg.text,
                     id |-> submission_id] >>)
       [] msg.kind = "TaskComplete" ->
            same(IF msg.text # "" THEN << [type |-> "assistant:complete",
                                           text |-> msg.text,
                                           id |-> submission_id] >>
                 ELSE <<>>)
       [] OTHER ->
            same(<< [type |-> "raw", id |-> submission_id, event |-> msg.kind] >>)

\* handle_proto_line: a blank line is skipped, a line that is not the JSON of an
\* Event is an error and nothing else, a decoded Event is dispatched.
handle_proto_line(b, line, uuid) ==
  IF line.raw = "blank"
    THEN [b |-> b, out |-> <<>>, uuid |-> uuid, result |-> "ok"]
  ELSE IF line.raw \in {"nonjson", "notevent"}
    THEN [b |-> b, out |-> <<>>, uuid |-> uuid, result |-> "err_parse"]
  ELSE LET dispatched(r) == [b |-> r.b, out |-> r.out, uuid |-> r.uuid, result |-> "ok"]
       IN dispatched(Dispatch(b, line.id, line.msg, uuid))

\* A reader that takes the newest line of the pipe instead of the oldest.
ReaderIter_newest_first(b, uuid) ==
  LET line == b.pipe[Len(b.pipe)]
      b1 == [b EXCEPT !.pipe = SubSeq(@, 1, Len(@) - 1)]
      handled(r) == [b |-> r.b, uuid |-> r.uuid, step |-> [line |-> line, out |-> r.out]]
  IN IF line.raw = "badutf8"
       THEN [b |-> [b1 EXCEPT !.reading = FALSE], uuid |-> uuid,
             step |-> [line |-> line, out |-> <<>>]]
     ELSE handled(handle_proto_line(b1, line, uuid))

\* One iteration of the stdout reader thread's loop over reader.lines(): a line
\* the reader cannot decode (invalid UTF-8) is Err and breaks the loop; any
\* other line goes to handle_proto_line, whose error is only logged. step is
\* the line with the notifications emitted for it, in order.
ReaderIter(b, uuid) ==
  LET line == Head(b.pipe)
      b1 == [b EXCEPT !.pipe = Tail(@)]
      handled(r) == [b |-> r.b, uuid |-> r.uuid, step |-> [line |-> line, out |-> r.out]]
  IN IF line.raw = "badutf8"
       THEN [b |-> [b1 EXCEPT !.reading = FALSE], uuid |-> uuid,
             step |-> [line |-> line, out |-> <<>>]]
     ELSE handled(handle_proto_line(b1, line, uuid))

\* The stdout reader thread run to its end, as a join of it sees it: the child
\* is dead, so the loop reads what is left in the pipe and then end of file.
RECURSIVE ReaderLoop(_, _, _)
ReaderLoop(b, uuid, trace) ==
  IF ~b.reading THEN [b |-> b, uuid |-> uuid, trace |-> trace]
  ELSE IF b.pipe = <<>>
    THEN [b |-> [b EXCEPT !.reading = FALSE], uuid |-> uuid, trace |-> trace]
  ELSE LET next(r) == ReaderLoop(r.b, r.uuid, Append(trace, r.step))
       IN next(ReaderIter(b, uuid))

\* A stop that kills the child and drops the handles without joining the
\* stdout reader: the thread keeps reading what is left in the pipe.
stop_no_join(b, e) ==
  LET alive == IF b.process # NoChild THEN e.alive \ {b.process} ELSE e.alive
  IN [ b |-> [b EXCEPT !.process = NoChild, !.stdin = NoChild,
                       !.stderr_thread = FALSE, !.errpipe = 0],
       e |-> [e EXCEPT !.alive = alive],
       trace |-> <<>>, errs |-> 0, wrote |-> <<>>, result |-> "ok" ]

\* CodexBridge::stop: kill and reap the child, drop stdin, join both readers
\* (the stderr reader emits one codex:error notification per line left: errs).
\* e is the environment [alive, uuid, spawned].
stop(b, e) ==
  LET alive == IF b.process # NoChild THEN e.alive \ {b.process} ELSE e.alive
      b1 == [b EXCEPT !.process = NoChild, !.stdin = NoChild]
      errs == IF b1.stderr_thread THEN b1.errpipe ELSE 0
      joined(r) ==
        [ b |-> [r.b EXCEPT !.stdout_thread = FALSE, !.stderr_thread = FALSE,
                            !.pipe = <<>>, !.errpipe = 0, !.reading = FALSE],
          e |-> [e EXCEPT !.alive = alive, !.uuid = r.uuid],
          trace |-> r.trace, errs |-> errs, wrote |-> <<>>, result |-> "ok" ]
  IN joined(IF b1.stdout_thread THEN ReaderLoop(b1, e.uuid, <<>>)
            ELSE [b |-> b1, uuid |-> e.uuid, trace |-> <<>>])

\* A spawn_codex_process that falls back to the node runner after any error
\* of the primary spawn.
spawn_codex_process_fallback_on_any_error(os) ==
  IF os.primary = "ok" THEN [ok |-> TRUE, attempts |-> 1, err |-> ""]
  ELSE IF ~os.script THEN [ok |-> FALSE, attempts |-> 1, err |-> "err_no_script"]
  ELSE IF os.node = "ok" THEN [ok |-> TRUE, attempts |-> 2, err |-> ""]
  ELSE [ok |-> FALSE, attempts |-> 2, err |-> "err_spawn_node"]

\* spawn_codex_process: the primary spawn, and the node runner only after a
\* NotFound of the primary. os is [primary, script, node]: how the OS answers.
spawn_codex_process(os) ==
  IF os.primary = "ok" THEN [ok |-> TRUE, attempts |-> 1, err |-> ""]
  ELSE IF os.primary # "notfound"
    THEN [ok |-> FALSE, attempts |-> 1, err |-> "err_spawn"]
  ELSE IF ~os.script THEN [ok |-> FALSE, attempts |-> 1, err |-> "err_no_script"]
  ELSE IF os.node = "ok" THEN [ok |-> TRUE, attempts |-> 2, err |-> ""]
  ELSE [ok |-> FALSE, attempts |-> 2, err |-> "err_spawn_node"]

\* A start that does not stop the previous child first.
start_no_stop(b, project_dir, os, e) ==
  LET b1 == [b EXCEPT !.project_dir = project_dir,
                      !.session_model = NoModel,
                      !.reasoning_buffers = EmptyMap,
                      !.pending_permissions = EmptyMap,
                      !.pending_edits = EmptyMap]
      sp == spawn_codex_process(os)
      child == e.spawned + 1
  IN IF ~sp.ok
       THEN [b |-> b1, e |-> e, trace |-> <<>>, errs |-> 0,
             wrote |-> <<>>, result |-> sp.err]
     ELSE [ b |-> [b1 EXCEPT !.stdin = child, !.process = child,
                             !.stdout_thread = TRUE, !.stderr_thread = TRUE,
                             !.reading = TRUE, !.pipe = <<>>, !.errpipe = 0],
            e |-> [e EXCEPT !.alive = @ \cup {child}, !.spawned = child],
            trace |-> <<>>, errs |-> 0, wrote |-> <<>>, result |-> "ok" ]

\* CodexBridge::start: stop, set the directory, clear the shared state, spawn,
\* start both readers, keep the handles.
start(b, project_dir, os, e) ==
  LET cleared(x) == [x EXCEPT !.project_dir = project_dir,
                              !.session_model = NoModel,
                              !.reasoning_buffers = EmptyMap,
                              !.pending_permissions = EmptyMap,
                              !.pending_edits = EmptyMap]
      spawned(s, sp, child) ==
        IF ~sp.ok
          THEN [b |-> cleared(s.b), e |-> s.e, trace |-> s.trace, errs |-> s.errs,
                wrote |-> <<>>, result |-> sp.err]
        ELSE [ b |-> [cleared(s.b) EXCEPT !.stdin = child, !.process = child,
                                          !.stdout_thread = TRUE,
                                          !.stderr_thread = TRUE,
                                          !.reading = TRUE],
               e |-> [s.e EXCEPT !.alive = @ \cup {child}, !.spawned = child],
               trace |-> s.trace, errs |-> s.errs, wrote |-> <<>>, result |-> "ok" ]
      stopped(s) == spawned(s, spawn_codex_process(os), s.e.spawned + 1)
  IN stopped(stop(b, e))

\* A write_submission that does not fail on an absent stdin handle.
write_submission_without_handle(b, submission, e) ==
  IF b.stdin # NoChild /\ b.stdin \notin e.alive
    THEN [wrote |-> <<>>, result |-> "err_write"]
  ELSE [wrote |-> << submission >>, result |-> "ok"]

\* write_submission: one line to the child's stdin; the write fails when the
\* child has exited (its end of the pipe is closed).
write_submission(b, submission, e) ==
  IF b.stdin = NoChild THEN [wrote |-> <<>>, result |-> "err_stdin_unavailable"]
  ELSE IF b.stdin \notin e.alive THEN [wrote |-> <<>>, result |-> "err_write"]
  ELSE [wrote |-> << submission >>, result |-> "ok"]


\* An approval policy mapping under which a string it does not know asks for
\* no approval.
approval_policy_of_unknown_never(value) ==
  CASE value = "on-request" -> "OnRequest"
    [] value = "on-failure" -> "OnFailure"
    [] value = "unless-trusted" -> "UnlessTrusted"
    [] OTHER -> "Never"

\* The approvalPolicy and sandboxMode strings of a payload as policies.
approval_policy_of(value) ==
  CASE value = "on-request" -> "OnRequest"
    [] value = "on-failure" -> "OnFailure"
    [] value = "never" -> "Never"
    [] value = "unless-trusted" -> "UnlessTrusted"
    [] OTHER -> "OnRequest"

sandbox_policy_of(value, project_dir) ==
  CASE value = "danger-full-access" -> [mode |-> "DangerFullAccess", writable_roots |-> <<>>]
    [] value = "read-only" -> [mode |-> "ReadOnly", writable_roots |-> <<>>]
    [] OTHER -> [mode |-> "WorkspaceWrite", writable_roots |-> << project_dir >>]

\* A send_message that uses the payload's model override without storing it.
send_message_override_not_stored(b, payload, e) ==
  IF b.project_dir = ""
    THEN [b |-> b, e |-> e, trace |-> <<>>, errs |-> 0, wrote |-> <<>>,
          result |-> "err_no_project_dir"]
  ELSE
    LET submission_id == Uuid(e.uuid)
        model == IF payload.model # NoModel THEN payload.model
                 ELSE IF b.session_model # NoModel THEN b.session_model
                 ELSE DefaultModel
        b1 == b
        submission ==
          [ id |-> submission_id, op |-> "UserTurn",
            text |-> payload.current_message, cwd |-> b.project_dir,
            approval_policy |-> approval_policy_of(payload.approval_policy),
            sandbox_policy |-> sandbox_policy_of(payload.sandbox_mode, b.project_dir),
            model |-> model ]
        b2 == [b1 EXCEPT !.reasoning_buffers =
                 Insert(@, submission_id, ReasoningEntry_default)]
        w == write_submission(b2, submission, e)
    IN [b |-> b2, e |-> [e EXCEPT !.uuid = @ + 1], trace |-> <<>>, errs |-> 0,
        wrote |-> w.wrote, result |-> w.result]

\* CodexBridge::send_message. payload is the parsed SendPayload: absent options
\* are NoModel / "".
send_message(b, payload, e) ==
  IF b.project_dir = ""
    THEN [b |-> b, e |-> e, trace |-> <<>>, errs |-> 0, wrote |-> <<>>,
          result |-> "err_no_project_dir"]
  ELSE
    LET submission_id == Uuid(e.uuid)
        model == IF payload.model # NoModel THEN payload.model
                 ELSE IF b.session_model # NoModel THEN b.session_model
                 ELSE DefaultModel
        b1 == IF payload.model # NoModel
              THEN [b EXCEPT !.session_model = payload.model] ELSE b
        submission ==
          [ id |-> submission_id, op |-> "UserTurn",
            text |-> payload.current_message, cwd |-> b.project_dir,
            approval_policy |-> approval_policy_of(payload.approval_policy),
            sandbox_policy |-> sandbox_policy_of(payload.sandbox_mode, b.project_dir),
            model |-> model ]
        b2 == [b1 EXCEPT !.reasoning_buffers =
                 Insert(@, submission_id, ReasoningEntry_default)]
        w == write_submission(b2, submission, e)
    IN [b |-> b2, e |-> [e EXCEPT !.uuid = @ + 1], trace |-> <<>>, errs |-> 0,
        wrote |-> w.wrote, result |-> w.result]

\* The ReviewDecision of (allow, scope).
decision_of(allow, scope) ==
  IF allow THEN (IF scope \in {"session", "project"} THEN "approved_for_session"
                 ELSE "approved")
  ELSE "denied"

\* A resolve_permission that looks the entry up without removing it.
resolve_permission_no_remove(b, request_id, allow, scope, e) ==
  IF request_id \notin DOMAIN b.pending_permissions
    THEN [b |-> b, e |-> e, trace |-> <<>>, errs |-> 0, wrote |-> <<>>,
          result |-> "err_unknown_permission"]
  ELSE
    LET context == b.pending_permissions[request_id]
        submission ==
          IF context.kind = "Exec"
          THEN [id |-> "approval-" \o Uuid(e.uuid), op |-> "ExecApproval",
                approval_id |-> context.submission_id,
                decision |-> decision_of(allow, scope)]
          ELSE [id |-> "patch-" \o Uuid(e.uuid), op |-> "PatchApproval",
                approval_id |-> context.submission_id,
                decision |-> decision_of(allow, scope)]
        w == write_submission(b, submission, e)
    IN [b |-> b, e |-> [e EXCEPT !.uuid = @ + 1], trace |-> <<>>, errs |-> 0,
        wrote |-> w.wrote, result |-> w.result]

\* A resolve_permission whose approval names the permission id.
resolve_permission_by_permission_id(b, request_id, allow, scope, e) ==
  IF request_id \notin DOMAIN b.pending_permissions
    THEN [b |-> b, e |-> e, trace |-> <<>>, errs |-> 0, wrote |-> <<>>,
          result |-> "err_unknown_permission"]
  ELSE
    LET context == b.pending_permissions[request_id]
        b1 == [b EXCEPT !.pending_permissions = Remove(@, request_id)]
        submission ==
          IF context.kind = "Exec"
          THEN [id |-> "approval-" \o Uuid(e.uuid), op |-> "ExecApproval",
                approval_id |-> request_id,
                decision |-> decision_of(allow, scope)]
          ELSE [id |-> "patch-" \o Uuid(e.uuid), op |-> "PatchApproval",
                approval_id |-> request_id,
                decision |-> decision_of(allow, scope)]
        w == write_submission(b1, submission, e)
    IN [b |-> b1, e |-> [e EXCEPT !.uuid = @ + 1], trace |-> <<>>, errs |-> 0,
        wrote |-> w.wrote, result |-> w.result]

\* CodexBridge::resolve_permission: the entry is removed, then the approval is
\* built and written.
resolve_permission(b, request_id, allow, scope, e) ==
  IF request_id \notin DOMAIN b.pending_permissions
    THEN [b |-> b, e |-> e, trace |-> <<>>, errs |-> 0, wrote |-> <<>>,
          result |-> "err_unknown_permission"]
  ELSE
    LET context == b.pending_permissions[request_id]
        b1 == [b EXCEPT !.pending_permissions = Remove(@, request_id)]
        submission ==
          IF context.kind = "Exec"
          THEN [id |-> "approval-" \o Uuid(e.uuid), op |-> "ExecApproval",
                approval_id |-> context.submission_id,
                decision |-> decision_of(allow, scope)]
          ELSE [id |-> "patch-" \o Uuid(e.uuid), op |-> "PatchApproval",
                approval_id |-> context.submission_id,
                decision |-> decision_of(allow, scope)]
        w == write_submission(b1, submission, e)
    IN [b |-> b1, e |-> [e EXCEPT !.uuid = @ + 1], trace |-> <<>>, errs |-> 0,
        wrote |-> w.wrote, result |-> w.result]

\* CodexBridge::interrupt.
interrupt(b, e) ==
  IF b.stdin = NoChild
    THEN [b |-> b, e |-> e, trace |-> <<>>, errs |-> 0, wrote |-> <<>>,
          result |-> "err_not_running"]
  ELSE LET w == write_submission(b, [id |-> Uuid(e.uuid), op |-> "Interrupt"], e)
       IN [b |-> b, e |-> [e EXCEPT !.uuid = @ + 1], trace |-> <<>>, errs |-> 0,
           wrote |-> w.wrote, result |-> w.result]


(***************************************************************************)
(* Spec: one CodexBridge, driven through its public methods, with the      *)
(* child writing lines and the reader threads handling them.               *)
(*   bridge  the CodexBridge                                               *)
(*   env     [alive: the running children, uuid: the next fresh id,        *)
(*            spawned: the children spawned so far]                        *)
(*   last    the last step: the method or thread, its arguments, its       *)
(*           result, the submissions it wrote to the child's stdin, the    *)
(*           stdout lines it handled with the notifications of each, the   *)
(*           number of stderr notifications it emitted, and whether the    *)
(*           bridge was Idle before it                                     *)
(*   hist    what an observer has seen since the last start: the           *)
(*           submission ids written to the child (sent), the handled       *)
(*           lines with their notifications (log), the stderr              *)
(*           notifications (errs); and the permission ids a resolve has    *)
(*           taken with no request for them since (resolved)               *)
(*   focus   the family of scenarios this behaviour is drawn from: which   *)
(*           events the child writes and which inputs the callers give     *)
(*   count   [calls, lines, errlines]: how much of the bounds is used       *)
(***************************************************************************)
VARIABLES bridge, env, last, hist, focus, count

\* The state of the other two specifications: the registries of lib.rs and
\* terminal.rs (RegistrySpec) and the threads that take their mutexes
\* (LockSpec). A step of the bridge leaves them alone.
VARIABLES sessions, model_handlers, terminals, threads

\* The state of the component a component specification is about (the token
\* statistics, the checkpoint store, the terminal manager, ...); the three
\* specifications above leave it empty.
VARIABLE unit

NoUnit == <<>>

NoHandlers == [m \in {"codex"} |-> FALSE]

NoThreads == [t \in {} |-> 0]

RegistryIdle ==
  /\ sessions = EmptyMap
  /\ model_handlers = NoHandlers
  /\ terminals = {}

OutsideBridge == UNCHANGED << sessions, model_handlers, terminals, threads, unit >>

\* The families: "lifecycle" varies the callers' inputs (directories, spawn
\* answers, payloads, permission answers) and the child's death and stderr over
\* a child that writes one kind of line; the other four vary the child's lines
\* (reasoning events; approval and patch events; malformed lines among events
\* that change the maps; the events that change nothing) under fixed inputs.
Focuses == {"lifecycle", "reasoning", "approval", "malformed", "stateless",
            "model", "policy"}

\* The FileChange maps of a patch request, in the map's iteration order.
OneChange == << [path |-> "f1", kind |-> "Add", content |-> "x"] >>
TwoChanges == << [path |-> "f1", kind |-> "Update", content |-> "@@"],
                 [path |-> "f2", kind |-> "Delete", content |-> "y"] >>

\* The EventMsg values a child of family f writes.
Msgs(f) ==
  CASE f = "lifecycle" -> { [kind |-> "ExecApprovalRequest", call_id |-> "c1"] }
    [] f = "reasoning" ->
         { [kind |-> "AgentReasoningDelta", text |-> "a"],
           [kind |-> "AgentReasoningRawContentDelta", text |-> "b"],
           [kind |-> "AgentReasoning", text |-> "c"],
           [kind |-> "AgentReasoningRawContent", text |-> "d"],
           [kind |-> "AgentReasoningSectionBreak"] }
    [] f = "approval" ->
         { [kind |-> "ExecApprovalRequest", call_id |-> "c1"],
           [kind |-> "ApplyPatchApprovalRequest", call_id |-> "c1", changes |-> OneChange],
           [kind |-> "ApplyPatchApprovalRequest", call_id |-> "c1", changes |-> TwoChanges],
           [kind |-> "ApplyPatchApprovalRequest", call_id |-> "c2", changes |-> OneChange],
           [kind |-> "PatchApplyEnd", call_id |-> "c1", success |-> TRUE],
           [kind |-> "PatchApplyEnd", call_id |-> "c1", success |-> FALSE],
           [kind |-> "PatchApplyEnd", call_id |-> "c2", success |-> TRUE] }
    [] f = "model" ->
         { [kind |-> "SessionConfigured", model |-> "m2"],
           [kind |-> "SessionConfigured", model |-> "m3"] }
    [] f = "policy" -> {}
    [] f = "malformed" ->
         { [kind |-> "AgentReasoningDelta", text |-> "a"],
           [kind |-> "ApplyPatchApprovalRequest", call_id |-> "c1", changes |-> OneChange],
           [kind |-> "SessionConfigured", model |-> "m2"] }
    [] OTHER ->
         { [kind |-> "SessionConfigured", model |-> "m2"],
           [kind |-> "AgentMessageDelta", text |-> "t"],
           [kind |-> "AgentMessage", text |-> "t"],
           [kind |-> "ExecCommandBegin", call_id |-> "c1"],
           [kind |-> "ExecCommandOutputDelta", call_id |-> "c1", text |-> "o",
            stream |-> "stdout"],
           [kind |-> "ExecCommandEnd", call_id |-> "c1", formatted_output |-> "",
            aggregated_output |-> "", stdout |-> "", stderr |-> "", exit_code |-> 1],
           [kind |-> "ExecCommandEnd", call_id |-> "c1", formatted_output |-> "",
            aggregated_output |-> "agg", stdout |-> "o", stderr |-> "", exit_code |-> 0],
           [kind |-> "TokenCount", info |-> TRUE],
           [kind |-> "TokenCount", info |-> FALSE],
           [kind |-> "Error", text |-> "boom"],
           [kind |-> "TaskComplete", text |-> "done"],
           [kind |-> "TaskComplete", text |-> ""],
           [kind |-> "BackgroundEvent"] }

\* The stateless family's lines do not interact: it writes one line fewer.
LineBudget == IF focus = "stateless" THEN MaxLines - 1 ELSE MaxLines

\* A child tags an event with an id of its own or, where the id is a key of the
\* bridge's state, with a submission id it was sent.
EventIds ==
  IF focus \in {"reasoning", "lifecycle"} THEN {ChildEventId} \cup hist.sent
  ELSE {ChildEventId}

\* The stdout lines a child may write as its n-th: events, and in the malformed
\* family the malformed lines too.
Lines(n) ==
  { [raw |-> "event", n |-> n, id |-> i, msg |-> m] : i \in EventIds, m \in Msgs(focus) }
  \cup (IF focus = "malformed"
        THEN { [raw |-> r, n |-> n] : r \in {"blank", "nonjson", "notevent", "badutf8"} }
        ELSE {})

\* The SendPayload inputs.
PlainPayload ==
  [current_message |-> "hi", model |-> NoModel, approval_policy |-> "",
   sandbox_mode |-> ""]

\* The approvalPolicy and sandboxMode strings callers give: absent (""), the
\* recognized ones, and strings that are none of them.
ApprovalStrings ==
  {"", "on-request", "on-failure", "never", "unless-trusted", "Never", "always"}

SandboxStrings ==
  {"", "danger-full-access", "read-only", "workspace-write", "READ-ONLY"}

Payloads ==
  CASE focus = "lifecycle" ->
         { PlainPayload,
           [current_message |-> "hi", model |-> "m1", approval_policy |-> "never",
            sandbox_mode |-> "read-only"] }
    [] focus = "model" ->
         { PlainPayload, [PlainPayload EXCEPT !.model = "m1"] }
    [] focus = "policy" ->
         { [PlainPayload EXCEPT !.approval_policy = a, !.sandbox_mode = m] :
             a \in ApprovalStrings, m \in SandboxStrings }
    [] OTHER -> { PlainPayload }

\* How the OS answers spawn_codex_process.
SpawnOk == [primary |-> "ok", script |-> TRUE, node |-> "ok"]

SpawnAnswers ==
  IF focus = "lifecycle"
  THEN { SpawnOk,
         [primary |-> "notfound", script |-> TRUE, node |-> "ok"],
         [primary |-> "denied", script |-> TRUE, node |-> "ok"],
         [primary |-> "notfound", script |-> FALSE, node |-> "ok"],
         [primary |-> "notfound", script |-> TRUE, node |-> "denied"] }
  ELSE { SpawnOk }

\* The directories start is given.
StartDirs == IF focus = "lifecycle" THEN Dirs ELSE {"/p"}

\* The (allow, scope) answers to a permission request.
Answers ==
  IF focus = "lifecycle"
  THEN { <<TRUE, "once">>, <<TRUE, "session">>, <<TRUE, "project">>, <<FALSE, "once">> }
  ELSE { <<TRUE, "once">>, <<TRUE, "project">>, <<FALSE, "session">> }

\* The methods the callers of a family use.
Calls ==
  CASE focus = "lifecycle" -> {"start", "stop", "send_message", "interrupt",
                               "resolve_permission"}
    [] focus = "reasoning" -> {"start", "stop", "send_message"}
    [] focus = "model" -> {"start", "stop", "send_message"}
    [] focus = "policy" -> {"start", "send_message"}
    [] focus = "approval" -> {"start", "stop", "resolve_permission"}
    [] OTHER -> {"start", "stop"}

\* The ids of the notifications of type t in out, in order.
RECURSIVE NoteIds(_, _)
NoteIds(out, t) ==
  IF out = <<>> THEN <<>>
  ELSE (IF Head(out).type = t THEN << Head(out).id >> ELSE <<>>) \o NoteIds(Tail(out), t)

RECURSIVE TraceNoteIds(_, _)
TraceNoteIds(trace, t) ==
  IF trace = <<>> THEN <<>>
  ELSE NoteIds(Head(trace).out, t) \o TraceNoteIds(Tail(trace), t)

Range(seq) == { seq[i] : i \in 1..Len(seq) }

\* The models of the session-configured events among the handled lines.
RECURSIVE ConfiguredModels(_)
ConfiguredModels(trace) ==
  IF trace = <<>> THEN <<>>
  ELSE (IF Head(trace).line.raw = "event"
           /\ Head(trace).line.msg.kind = "SessionConfigured"
        THEN << Head(trace).line.msg.model >> ELSE <<>>)
       \o ConfiguredModels(Tail(trace))

\* hist after a step that handled trace and emitted errs stderr notifications.
Seen(h, trace, errs) ==
  [h EXCEPT !.log = @ \o trace, !.errs = @ + errs,
            !.resolved = @ \ Range(TraceNoteIds(trace, "permission:request")),
            !.models = @ \o ConfiguredModels(trace)]

\* hist after a step that wrote the submissions wrote to the child.
Written(h, wrote) == [h EXCEPT !.written = @ \cup { w.id : w \in Range(wrote) }]

\* models: the overrides given and the models configured since the last start,
\* in order; written: the ids of all submissions written to any child.
HistInit ==
  [sent |-> {}, log |-> <<>>, errs |-> 0, resolved |-> {}, models |-> <<>>,
   written |-> {}]

\* Idle: no process handle, no stdin handle, no reader-thread handles.
IsIdle(b) ==
  /\ b.process = NoChild /\ b.stdin = NoChild
  /\ ~b.stdout_thread /\ ~b.stderr_thread

\* The record of a step.
Step(op, arg, result, wrote, trace, errs) ==
  [op |-> op, arg |-> arg, result |-> result, wrote |-> wrote, trace |-> trace,
   errs |-> errs, was_idle |-> IsIdle(bridge)]

InitBridge ==
  /\ bridge = CodexBridge_new
  /\ env = [alive |-> {}, uuid |-> 1, spawned |-> 0]
  /\ last = Step("new", <<>>, "ok", <<>>, <<>>, 0)
  /\ hist = HistInit
  /\ focus \in Focuses
  /\ count = [calls |-> 0, lines |-> 0, errlines |-> 0]
  /\ RegistryIdle
  /\ threads = NoThreads
  /\ unit = NoUnit

\* A call of a bridge method that returned r.
Called(op, arg, r) ==
  /\ op \in Calls
  /\ count.calls < MaxCalls
  /\ r.e.spawned <= MaxSpawns
  /\ bridge' = r.b
  /\ env' = r.e
  /\ last' = Step(op, arg, r.result, r.wrote, r.trace, r.errs)
  /\ count' = [count EXCEPT !.calls = @ + 1]
  /\ UNCHANGED focus
  /\ OutsideBridge

Start(dir, os) ==
  /\ Called("start", [project_dir |-> dir, os |-> os], start(bridge, dir, os, env))
  /\ hist' = [HistInit EXCEPT !.resolved = hist.resolved, !.written = hist.written]

Stop ==
  LET returned(r) == /\ Called("stop", <<>>, r)
                     /\ hist' = Seen(hist, r.trace, r.errs)
  IN returned(stop(bridge, env))

SendMessage(payload) ==
  LET returned(r) ==
        /\ Called("send_message", payload, r)
        /\ hist' = [Written(hist, r.wrote) EXCEPT
                      !.sent = @ \cup { w.id : w \in Range(r.wrote) },
                      !.models = IF payload.model # NoModel
                                 THEN Append(@, payload.model) ELSE @]
  IN returned(send_message(bridge, payload, env))

ResolvePermission(request_id, allow, scope) ==
  LET returned(r) ==
        /\ Called("resolve_permission",
                  [request_id |-> request_id, allow |-> allow, scope |-> scope], r)
        /\ hist' = [Written(hist, r.wrote) EXCEPT !.resolved =
                      IF r.result = "err_unknown_permission" THEN @
                      ELSE @ \cup {request_id}]
  IN returned(resolve_permission(bridge, request_id, allow, scope, env))

Interrupt ==
  LET returned(r) == /\ Called("interrupt", <<>>, r)
                     /\ hist' = Written(hist, r.wrote)
  IN returned(interrupt(bridge, env))

\* The child writes one more line to its stdout.
ChildWrites(line) ==
  /\ bridge.process \in env.alive
  /\ bridge.reading
  /\ count.lines < LineBudget
  /\ Len(bridge.pipe) < MaxPipe
  /\ bridge' = [bridge EXCEPT !.pipe = Append(@, line)]
  /\ count' = [count EXCEPT !.lines = @ + 1]
  /\ last' = Step("child_writes", line, "ok", <<>>, <<>>, 0)
  /\ UNCHANGED << env, hist, focus >>
  /\ OutsideBridge

\* The child writes one more line to its stderr.
ChildWritesErr ==
  /\ focus = "lifecycle"
  /\ bridge.process \in env.alive
  /\ count.errlines < MaxErrLines
  /\ bridge' = [bridge EXCEPT !.errpipe = @ + 1]
  /\ count' = [count EXCEPT !.errlines = @ + 1]
  /\ last' = Step("child_writes_err", <<>>, "ok", <<>>, <<>>, 0)
  /\ UNCHANGED << env, hist, focus >>
  /\ OutsideBridge

\* The child exits on its own.
ChildDies ==
  /\ focus = "lifecycle"
  /\ bridge.process \in env.alive
  /\ env' = [env EXCEPT !.alive = @ \ {bridge.process}]
  /\ last' = Step("child_dies", <<>>, "ok", <<>>, <<>>, 0)
  /\ UNCHANGED << bridge, hist, focus, count >>
  /\ OutsideBridge

\* The stdout reader thread takes the next line.
ReaderStep ==
  /\ bridge.stdout_thread /\ bridge.reading /\ bridge.pipe # <<>>
  /\ LET read(r) ==
           /\ bridge' = r.b
           /\ env' = [env EXCEPT !.uuid = r.uuid]
           /\ last' = Step("reader", r.step.line, "ok", <<>>, << r.step >>, 0)
           /\ hist' = Seen(hist, << r.step >>, 0)
     IN read(ReaderIter(bridge, env.uuid))
  /\ UNCHANGED << focus, count >>
  /\ OutsideBridge

\* The stdout reader thread reads end of file: the child is gone and the pipe
\* is empty.
ReaderEof ==
  /\ bridge.stdout_thread /\ bridge.reading /\ bridge.pipe = <<>>
  /\ bridge.process \notin env.alive
  /\ bridge' = [bridge EXCEPT !.reading = FALSE]
  /\ last' = Step("reader_eof", <<>>, "ok", <<>>, <<>>, 0)
  /\ UNCHANGED << env, hist, focus, count >>
  /\ OutsideBridge

\* The stderr reader thread takes the next line.
StderrStep ==
  /\ bridge.stderr_thread /\ bridge.errpipe > 0
  /\ bridge' = [bridge EXCEPT !.errpipe = @ - 1]
  /\ last' = Step("stderr_reader", <<>>, "ok", <<>>, <<>>, 1)
  /\ hist' = Seen(hist, <<>>, 1)
  /\ UNCHANGED << env, focus, count >>
  /\ OutsideBridge

\* The permission ids a caller tries: the pending ones, the ones already
\* resolved, and one fixed id.
RequestIds ==
  (DOMAIN bridge.pending_permissions) \cup hist.resolved \cup {"exec:s1:c1"}

NextBridge ==
  \/ \E dir \in StartDirs, os \in SpawnAnswers : Start(dir, os)
  \/ Stop
  \/ \E payload \in Payloads : SendMessage(payload)
  \/ \E id \in RequestIds, answer \in Answers :
       ResolvePermission(id, answer[1], answer[2])
  \/ Interrupt
  \/ \E line \in Lines(count.lines + 1) : ChildWrites(line)
  \/ ChildWritesErr
  \/ ChildDies
  \/ ReaderStep
  \/ ReaderEof
  \/ StderrStep

vars == << bridge, env, last, hist, focus, count,
          sessions, model_handlers, terminals, threads, unit >>

Init == InitBridge

Spec == Init /\ [][NextBridge]_vars


(***************************************************************************)
(* The claims about the bridge, checked under Spec.                        *)
(***************************************************************************)
ApprovalOps == {"ExecApproval", "PatchApproval"}

\* C1 as stated: a resolve_permission of a pending id removes the entry and
\* writes one approval submission, and a resolve_permission of an id that a
\* resolve has taken, with no request for it since, fails as unknown and
\* writes nothing.
C1_FirstResolveWrites ==
  [][ last'.op = "resolve_permission" =>
        LET p == last'.arg.request_id
        IN /\ p \in DOMAIN bridge.pending_permissions =>
                /\ p \notin DOMAIN bridge'.pending_permissions
                /\ Len(last'.wrote) = 1
           /\ p \in hist.resolved =>
                /\ last'.result = "err_unknown_permission"
                /\ last'.wrote = <<>> ]_vars

\* C1, amended: permissions are single-use. A resolve_permission of a pending id
\* removes the entry, and writes exactly one approval submission when the bridge
\* holds the stdin of a running child; otherwise it returns the write error and
\* writes nothing, with the entry removed all the same. A resolve_permission of
\* an id a resolve has taken, with no request for it since, fails as unknown,
\* writes nothing and changes nothing: of two resolves of one id at most one
\* succeeds.
C1_SingleUse ==
  [][ last'.op = "resolve_permission" =>
        LET p == last'.arg.request_id
        IN /\ p \in DOMAIN bridge.pending_permissions =>
                /\ p \notin DOMAIN bridge'.pending_permissions
                /\ last'.result # "err_unknown_permission"
                /\ last'.result = "ok" <=>
                     (bridge.stdin # NoChild /\ bridge.stdin \in env.alive)
                /\ last'.result = "ok" =>
                     /\ Len(last'.wrote) = 1
                     /\ last'.wrote[1].op \in ApprovalOps
                /\ last'.result # "ok" => last'.wrote = <<>>
           /\ p \in hist.resolved =>
                /\ last'.result = "err_unknown_permission"
                /\ last'.wrote = <<>>
                /\ bridge' = bridge ]_vars

\* C1's case: a second resolve of an id, refused.
C1_Witness ==
  /\ last.op = "resolve_permission"
  /\ last.result = "err_unknown_permission"
  /\ last.arg.request_id \in hist.resolved

\* The notifications of the handled lines, in the order of their emission.
RECURSIVE Notes(_)
Notes(trace) == IF trace = <<>> THEN <<>> ELSE Head(trace).out \o Notes(Tail(trace))

\* The thinking notifications among notes whose parent is id.
RECURSIVE Thinking(_, _)
Thinking(notes, id) ==
  IF notes = <<>> THEN <<>>
  ELSE (IF Head(notes).type = "thinking" /\ Head(notes).parentId = id
        THEN << Head(notes) >> ELSE <<>>) \o Thinking(Tail(notes), id)

RECURSIVE ConcatText(_)
ConcatText(notes) ==
  IF notes = <<>> THEN "" ELSE Head(notes).text \o ConcatText(Tail(notes))

ThinkingParents ==
  { n.parentId : n \in { m \in Range(Notes(hist.log)) : m.type = "thinking" } }

\* C2: for every submission id, the thinking notifications emitted so far carry
\* the sequence numbers 1, 2, 3, ..., each carries as fullText the concatenation
\* of the chunks emitted so far for the id, and the id has no entry in the
\* reasoning-buffer map exactly when its last chunk was completion-flagged.
C2_SequenceAndFullText ==
  \A id \in ThinkingParents :
    LET ns == Thinking(Notes(hist.log), id)
    IN /\ \A k \in 1..Len(ns) :
            /\ ns[k].sequence = k
            /\ ns[k].fullText = ConcatText(SubSeq(ns, 1, k))
       /\ ns[Len(ns)].done <=> id \notin DOMAIN bridge.reasoning_buffers

IsEvent(st, kind) == st.line.raw = "event" /\ st.line.msg.kind = kind

IsPatchEnd(i, call) ==
  /\ IsEvent(hist.log[i], "PatchApplyEnd")
  /\ hist.log[i].line.msg.call_id = call

\* The notifications of a patch request with N changes: N edit:proposed with N
\* different ids, then the one permission:request.
ProposedThenRequest(st) ==
  LET n == Len(st.line.msg.changes)
  IN /\ Len(st.out) = n + 1
     /\ \A k \in 1..n : st.out[k].type = "edit:proposed"
     /\ \A k, l \in 1..n : st.out[k].id = st.out[l].id => k = l
     /\ st.out[n + 1].type = "permission:request"

\* The notifications of end are one per edit id proposed by req, of the type
\* its success flag asks for.
FinalizesAll(req, end) ==
  LET n == Len(req.line.msg.changes)
  IN /\ Len(end.out) = n
     /\ { end.out[k].id : k \in 1..n } = { req.out[k].id : k \in 1..n }
     /\ \A k \in 1..n :
          end.out[k].type = IF end.line.msg.success THEN "edit:applied"
                            ELSE "edit:rejected"

\* C3 as stated: a patch request with N changes emits N edit:proposed and then
\* the permission:request, and the next patch-apply-end for its call id emits
\* one notification per edit id the request proposed.
C3_NextEndFinalizesRequest ==
  \A i \in 1..Len(hist.log) :
    IsEvent(hist.log[i], "ApplyPatchApprovalRequest") =>
      /\ ProposedThenRequest(hist.log[i])
      /\ \A j \in (i + 1)..Len(hist.log) :
           ( /\ IsPatchEnd(j, hist.log[i].line.msg.call_id)
             /\ \A k \in (i + 1)..(j - 1) : ~IsPatchEnd(k, hist.log[i].line.msg.call_id) )
           => FinalizesAll(hist.log[i], hist.log[j])

\* C5: the children of the bridge that run are at most the one it holds, and a
\* start leaves no entry of the maps and no session model from before it, also
\* when lines of the previous child were still unread.
C5_OneChildAndClearedMaps ==
  /\ env.alive \subseteq {bridge.process}
  /\ last.op = "start" =>
       /\ bridge.session_model = NoModel
       /\ bridge.reasoning_buffers = EmptyMap
       /\ bridge.pending_permissions = EmptyMap
       /\ bridge.pending_edits = EmptyMap

\* C5's case: a restart whose stop read a permission request of the first child.
C5_Witness ==
  /\ last.op = "start" /\ last.result = "ok" /\ env.spawned = 2
  /\ "permission:request" \in { n.type : n \in Range(Notes(last.trace)) }
  /\ env.alive = {bridge.process}

\* C7: the lines of a child are handled, and with them their notifications
\* emitted, in the order the child wrote them.
C7_LineOrder ==
  \A i, j \in 1..Len(hist.log) :
    i < j => hist.log[i].line.n < hist.log[j].line.n

\* C7's case: two lines handled, each with a notification.
C7_Witness ==
  /\ Len(hist.log) >= 2
  /\ hist.log[1].out # <<>> /\ hist.log[2].out # <<>>

Maps(b) == << b.session_model, b.reasoning_buffers, b.pending_permissions, b.pending_edits >>

\* C8: the reader drops a malformed line without a change to the maps and goes
\* on reading, so that the lines after it are dispatched.
C8_MalformedLineNotFatal ==
  [][ (last'.op = "reader" /\ last'.arg.raw # "event") =>
        /\ Maps(bridge') = Maps(bridge)
        /\ last'.trace[1].out = <<>>
        /\ bridge'.reading ]_vars

\* C10: after stop the bridge is Idle; while it is Idle nothing but a start
\* makes it emit a notification; and a stop of an Idle bridge returns success
\* and changes nothing.
C10_StopQuiesces ==
  [][ /\ last'.op = "stop" => (IsIdle(bridge') /\ last'.result = "ok")
      /\ (IsIdle(bridge) /\ last'.op # "start") =>
           (hist'.log = hist.log /\ hist'.errs = hist.errs)
      /\ (IsIdle(bridge) /\ last'.op = "stop") =>
           (bridge' = bridge /\ env' = env /\ last'.wrote = <<>>) ]_vars

\* C10's case: a stop of a bridge that a stop had made Idle with lines unread.
C10_Witness ==
  /\ last.op = "stop" /\ last.was_idle /\ env.spawned = 1
  /\ hist.log # <<>>

\* Running: the bridge holds the stdin handle of a child it started and has
\* not stopped.
IsRunning(b) == b.stdin # NoChild

\* The call wrote exactly one submission of its kind, under an id no
\* submission was written under before.
WroteOneFresh ==
  /\ last'.result = "ok"
  /\ Len(last'.wrote) = 1
  /\ last'.wrote[1].id \notin hist.written
  /\ last'.wrote[1].op = (IF last'.op = "interrupt" THEN "Interrupt" ELSE "UserTurn")

\* The call returned an error and wrote nothing.
Refused == last'.result # "ok" /\ last'.wrote = <<>>

\* C11 as stated: send_message and interrupt return an error and write
\* nothing on a bridge that was never started or has been stopped, and in
\* Running each writes exactly one submission carrying a fresh id.
C11_OnlyValidInRunning ==
  [][ last'.op \in {"send_message", "interrupt"}
        => IF IsRunning(bridge) THEN WroteOneFresh ELSE Refused ]_vars

\* C11 amended: send_message and interrupt write exactly one submission with a
\* fresh id when the bridge is Running and its child has not exited; on a
\* bridge never started or stopped, and in Running with an exited child, each
\* returns an error and writes nothing.
C11_OnlyValidWithLiveChild ==
  [][ last'.op \in {"send_message", "interrupt"}
        => IF IsRunning(bridge) /\ bridge.stdin \in env.alive
           THEN WroteOneFresh ELSE Refused ]_vars

\* An interrupt in Running that wrote its submission after a send_message
\* wrote one, the two under different ids.
C11_Witness ==
  /\ last.op = "interrupt" /\ last.result = "ok" /\ Len(last.wrote) = 1
  /\ IsRunning(bridge) /\ bridge.stdin \in env.alive
  /\ Cardinality(hist.written) = 2 /\ hist.sent # {}

\* C12: a UserTurn submission carries the payload's model override when there
\* is one, and the override becomes the stored session model; without an
\* override it carries the most recent of the overrides given and the models
\* of the session-configured events handled since the last start, and the
\* built-in default when there is none. A start leaves no stored model.
C12_EffectiveModel ==
  [][ /\ ( last'.op = "send_message" /\ Len(last'.wrote) = 1 ) =>
           /\ last'.wrote[1].op = "UserTurn"
           /\ last'.wrote[1].model =
                ( IF last'.arg.model # NoModel THEN last'.arg.model
                  ELSE IF hist.models # <<>> THEN hist.models[Len(hist.models)]
                  ELSE DefaultModel )
           /\ last'.arg.model # NoModel => bridge'.session_model = last'.arg.model
      /\ last'.op = "start" => bridge'.session_model = NoModel ]_vars

\* C12's case: a send_message without override after an override and a later
\* session-configured event with another model.
C12_Witness ==
  /\ last.op = "send_message" /\ Len(last.wrote) = 1 /\ last.arg.model = NoModel
  /\ hist.models = << "m1", "m2" >>
  /\ last.wrote[1].model = "m2"

\* The policies a submission must carry for the strings of its payload.
ApprovalFor(value) ==
  IF value = "never" THEN "Never"
  ELSE IF value = "on-failure" THEN "OnFailure"
  ELSE IF value = "unless-trusted" THEN "UnlessTrusted"
  ELSE "OnRequest"

SandboxFor(value, dir) ==
  IF value = "danger-full-access" THEN [mode |-> "DangerFullAccess", writable_roots |-> <<>>]
  ELSE IF value = "read-only" THEN [mode |-> "ReadOnly", writable_roots |-> <<>>]
  ELSE [mode |-> "WorkspaceWrite", writable_roots |-> << dir >>]

\* C13: the UserTurn submission of a payload asks for approval on request
\* unless its approvalPolicy is exactly 'never', 'on-failure' or
\* 'unless-trusted', and uses the workspace sandbox whose only writable root is
\* the bridge's project directory unless its sandboxMode is exactly
\* 'danger-full-access' or 'read-only'.
C13_PolicyDefaults ==
  [][ ( last'.op = "send_message" /\ Len(last'.wrote) = 1 ) =>
        /\ last'.wrote[1].approval_policy = ApprovalFor(last'.arg.approval_policy)
        /\ last'.wrote[1].sandbox_policy =
             SandboxFor(last'.arg.sandbox_mode, bridge.project_dir) ]_vars

\* C13's case: a payload whose two strings are near misses of recognized ones.
C13_Witness ==
  /\ last.op = "send_message" /\ Len(last.wrote) = 1
  /\ last.arg.approval_policy = "Never" /\ last.arg.sandbox_mode = "READ-ONLY"
  /\ last.wrote[1].approval_policy = "OnRequest"
  /\ last.wrote[1].sandbox_policy.writable_roots = << bridge.project_dir >>

\* The handled lines whose request event registered the permission id p.
Registering(p) ==
  { i \in 1..Len(hist.log) :
      p \in Range(NoteIds(hist.log[i].out, "permission:request")) }

Latest(S) == CHOOSE i \in S : \A j \in S : j <= i

\* C14: the approval submission a resolve_permission writes names the
\* submission id of the request event that registered the permission id, not
\* the permission id, is an exec approval for an exec request and a patch
\* approval for a patch request, and carries denied when allow is false,
\* approved-for-session when allow is true with scope 'session' or 'project',
\* and approved otherwise.
C14_ApprovalOfOriginalSubmission ==
  [][ ( last'.op = "resolve_permission" /\ Len(last'.wrote) = 1 ) =>
        LET p == last'.arg.request_id
            w == last'.wrote[1]
        IN /\ Registering(p) # {}
           /\ LET request == hist.log[Latest(Registering(p))].line
              IN /\ w.approval_id = request.id
                 /\ w.approval_id # p
                 /\ w.op = ( IF request.msg.kind = "ExecApprovalRequest"
                             THEN "ExecApproval" ELSE "PatchApproval" )
           /\ w.decision =
                ( IF ~last'.arg.allow THEN "denied"
                  ELSE IF last'.arg.scope \in {"session", "project"}
                    THEN "approved_for_session"
                  ELSE "approved" ) ]_vars

\* C14's case: a patch request allowed with scope 'project'.
C14_Witness ==
  /\ last.op = "resolve_permission" /\ Len(last.wrote) = 1
  /\ last.arg.allow /\ last.arg.scope = "project"
  /\ last.wrote[1].op = "PatchApproval"
  /\ last.wrote[1].decision = "approved_for_session"
  /\ last.wrote[1].approval_id = ChildEventId





(***************************************************************************)
(* The session registry of lib.rs: SESSION_MANAGER maps a session id to a  *)
(* SessionRuntime [project_dir, codex, terminal_id], an Option being the   *)
(* sequence of its at most one value; MODEL_HANDLERS maps a model to       *)
(* whether its handler holds a child; TERMINAL_MANAGER's map holds the ids *)
(* of the terminals. The commands are synchronous: one runs at a time, and *)
(* each is one step. env has two more fields here, owner: the session each *)
(* codex child was spawned for, and served: the sessions whose inputs the  *)
(* running model handler child was sent. The children of this              *)
(* specification write nothing; what a bridge does with their lines is     *)
(* Spec's matter.                                                          *)
(***************************************************************************)
MaxCommands == 4    \* commands invoked in one behaviour

SessionIds == {"A", "B"}
TerminalIds == {"t1"}
Cwd == "/p"                           \* std::env::current_dir()

SessionRuntime_new(project_dir) ==
  [project_dir |-> project_dir, codex |-> <<>>, terminal_id |-> <<>>]

\* str::trim of the directories given.
trim(dir) == IF dir = " " THEN "" ELSE dir

\* Path::canonicalize, or the path as given when it fails (no such directory).
canonicalize(dir) == IF dir = "/p/." THEN "/p" ELSE dir

\* resolved_str of start_codex.
resolved_str(project_dir) ==
  canonicalize(IF trim(project_dir) = "" THEN Cwd ELSE project_dir)

\* The children spawned between e0 and e were spawned for session_id.
Owned(e0, e, session_id) ==
  [e EXCEPT !.owner = [c \in 1..e.spawned |->
                         IF c \in DOMAIN e0.owner THEN e0.owner[c] ELSE session_id]]

\* bridge.stop() on the Option of a bridge: the environment after it.
StopOption(codex, e) == IF codex = <<>> THEN e ELSE stop(codex[1], e).e

\* A start_codex without the early return for a bridge on the same directory.
start_codex_always_restarts(ss, session_id, project_dir, os, e) ==
  LET resolved == resolved_str(project_dir)
      entry == [(IF session_id \in DOMAIN ss THEN ss[session_id]
                 ELSE SessionRuntime_new(resolved))
                 EXCEPT !.project_dir = resolved]
      started(st, e1) ==
        [ sessions |-> Insert(ss, session_id,
                         [entry EXCEPT !.codex = IF st.result = "ok" THEN << st.b >>
                                                 ELSE <<>>]),
          e |-> Owned(e1, st.e, session_id),
          wrote |-> <<>>, result |-> st.result ]
      stopped(e1) == started(start(CodexBridge_new, resolved, os, e1), e1)
  IN stopped(StopOption(entry.codex, e))

\* A start_codex that stores the directory only when the bridge started.
start_codex_keeps_dir_on_failure(ss, session_id, project_dir, os, e) ==
  LET resolved == resolved_str(project_dir)
      entry0 == IF session_id \in DOMAIN ss THEN ss[session_id]
                ELSE SessionRuntime_new(resolved)
      already_running_same_dir ==
        entry0.codex # <<>> /\ entry0.project_dir = resolved
      entry == [entry0 EXCEPT !.project_dir = resolved]
      started(st, e1) ==
        [ sessions |-> Insert(ss, session_id,
                         IF st.result = "ok" THEN [entry EXCEPT !.codex = << st.b >>]
                         ELSE [entry0 EXCEPT !.codex = <<>>]),
          e |-> Owned(e1, st.e, session_id),
          wrote |-> <<>>, result |-> st.result ]
      stopped(e1) == started(start(CodexBridge_new, resolved, os, e1), e1)
  IN IF already_running_same_dir
       THEN [sessions |-> Insert(ss, session_id, entry), e |-> e,
             wrote |-> <<>>, result |-> "ok"]
     ELSE stopped(StopOption(entry.codex, e))

\* start_codex: resolve the directory, find or create the entry, return early
\* when a bridge is held and the directory is the stored one; otherwise stop
\* the bridge held, start a new one and store it if it started.
start_codex(ss, session_id, project_dir, os, e) ==
  LET resolved == resolved_str(project_dir)
      entry0 == IF session_id \in DOMAIN ss THEN ss[session_id]
                ELSE SessionRuntime_new(resolved)
      already_running_same_dir ==
        entry0.codex # <<>> /\ entry0.project_dir = resolved
      entry == [entry0 EXCEPT !.project_dir = resolved]
      started(st, e1) ==
        [ sessions |-> Insert(ss, session_id,
                         [entry EXCEPT !.codex = IF st.result = "ok" THEN << st.b >>
                                                 ELSE <<>>]),
          e |-> Owned(e1, st.e, session_id),
          wrote |-> <<>>, result |-> st.result ]
      stopped(e1) == started(start(CodexBridge_new, resolved, os, e1), e1)
  IN IF already_running_same_dir
       THEN [sessions |-> Insert(ss, session_id, entry), e |-> e,
             wrote |-> <<>>, result |-> "ok"]
     ELSE stopped(StopOption(entry.codex, e))

\* A send_to_codex that makes an entry for a session it does not know.
send_to_codex_creating_session(ss, session_id, payload, os, e) ==
  IF session_id \notin DOMAIN ss
    THEN [sessions |-> Insert(ss, session_id, SessionRuntime_new(Cwd)), e |-> e,
          wrote |-> <<>>, result |-> "err_not_initialized"]
  ELSE
    LET entry == ss[session_id]
        sent(r) ==
          [ sessions |-> Insert(ss, session_id, [entry EXCEPT !.codex = << r.b >>]),
            e |-> r.e, wrote |-> r.wrote, result |-> r.result ]
        started(st) ==
          IF st.result # "ok"
            THEN [sessions |-> ss, e |-> st.e, wrote |-> <<>>, result |-> st.result]
          ELSE sent(send_message(st.b, payload, Owned(e, st.e, session_id)))
    IN IF entry.codex = <<>>
         THEN started(start(CodexBridge_new, entry.project_dir, os, e))
       ELSE sent(send_message(entry.codex[1], payload, e))

\* A send_to_codex that does not store the bridge it started.
send_to_codex_not_storing(ss, session_id, payload, os, e) ==
  IF session_id \notin DOMAIN ss
    THEN [sessions |-> ss, e |-> e, wrote |-> <<>>, result |-> "err_not_initialized"]
  ELSE
    LET entry == ss[session_id]
        sent(r) ==
          [ sessions |-> Insert(ss, session_id, [entry EXCEPT !.codex = << r.b >>]),
            e |-> r.e, wrote |-> r.wrote, result |-> r.result ]
        started(st) ==
          IF st.result # "ok"
            THEN [sessions |-> ss, e |-> st.e, wrote |-> <<>>, result |-> st.result]
          ELSE LET unsaved(r) ==
                     [sessions |-> ss, e |-> r.e, wrote |-> r.wrote, result |-> r.result]
               IN unsaved(send_message(st.b, payload, Owned(e, st.e, session_id)))
    IN IF entry.codex = <<>>
         THEN started(start(CodexBridge_new, entry.project_dir, os, e))
       ELSE sent(send_message(entry.codex[1], payload, e))

\* send_to_codex: an unknown session is an error; a session without a bridge
\* gets one started on its directory; then the message is sent.
send_to_codex(ss, session_id, payload, os, e) ==
  IF session_id \notin DOMAIN ss
    THEN [sessions |-> ss, e |-> e, wrote |-> <<>>, result |-> "err_not_initialized"]
  ELSE
    LET entry == ss[session_id]
        sent(r) ==
          [ sessions |-> Insert(ss, session_id, [entry EXCEPT !.codex = << r.b >>]),
            e |-> r.e, wrote |-> r.wrote, result |-> r.result ]
        started(st) ==
          IF st.result # "ok"
            THEN [sessions |-> ss, e |-> st.e, wrote |-> <<>>, result |-> st.result]
          ELSE sent(send_message(st.b, payload, Owned(e, st.e, session_id)))
    IN IF entry.codex = <<>>
         THEN started(start(CodexBridge_new, entry.project_dir, os, e))
       ELSE sent(send_message(entry.codex[1], payload, e))

\* A command on the bridge a session holds: an unknown session is an error,
\* and so is a session without a bridge; r is what the bridge's method returned.
OnBridge(ss, session_id, r) ==
  [ sessions |-> Insert(ss, session_id, [ss[session_id] EXCEPT !.codex = << r.b >>]),
    e |-> r.e, wrote |-> r.wrote, result |-> r.result ]

\* interrupt_codex.
interrupt_codex(ss, session_id, e) ==
  IF session_id \notin DOMAIN ss
    THEN [sessions |-> ss, e |-> e, wrote |-> <<>>, result |-> "err_not_initialized"]
  ELSE IF ss[session_id].codex = <<>>
    THEN [sessions |-> ss, e |-> e, wrote |-> <<>>,
          result |-> "err_bridge_not_initialized"]
  ELSE OnBridge(ss, session_id, interrupt(ss[session_id].codex[1], e))

\* resolve_codex_permission.
resolve_codex_permission(ss, session_id, request_id, allow, scope, e) ==
  IF session_id \notin DOMAIN ss
    THEN [sessions |-> ss, e |-> e, wrote |-> <<>>, result |-> "err_not_initialized"]
  ELSE IF ss[session_id].codex = <<>>
    THEN [sessions |-> ss, e |-> e, wrote |-> <<>>,
          result |-> "err_bridge_not_initialized"]
  ELSE OnBridge(ss, session_id,
                resolve_permission(ss[session_id].codex[1], request_id, allow, scope, e))

\* A stop_codex that takes the bridge out of the entry without stopping it.
stop_codex_drops_bridge(ss, session_id, e, handlers, terms) ==
  [ sessions |-> IF session_id \in DOMAIN ss
                 THEN Insert(ss, session_id,
                        [ss[session_id] EXCEPT !.terminal_id = <<>>, !.codex = <<>>])
                 ELSE ss,
    e |-> e,
    model_handlers |-> [m \in DOMAIN handlers |-> FALSE],
    terminals |-> IF session_id \in DOMAIN ss
                  THEN terms \ Range(ss[session_id].terminal_id) ELSE terms,
    wrote |-> <<>>, result |-> "ok" ]

\* A stop_codex that removes the session's entry.
stop_codex_removing_entry(ss, session_id, e, handlers, terms) ==
  [ sessions |-> Remove(ss, session_id),
    e |-> IF session_id \in DOMAIN ss THEN StopOption(ss[session_id].codex, e) ELSE e,
    model_handlers |-> [m \in DOMAIN handlers |-> FALSE],
    terminals |-> IF session_id \in DOMAIN ss
                  THEN terms \ Range(ss[session_id].terminal_id) ELSE terms,
    wrote |-> <<>>, result |-> "ok" ]

\* A stop_codex that stops the bridge and leaves it in the entry.
stop_codex_keeping_bridge(ss, session_id, e, handlers, terms) ==
  [ sessions |-> IF session_id \in DOMAIN ss
                 THEN Insert(ss, session_id,
                        [ss[session_id] EXCEPT
                           !.terminal_id = <<>>,
                           !.codex = IF @ = <<>> THEN @ ELSE << stop(@[1], e).b >>])
                 ELSE ss,
    e |-> IF session_id \in DOMAIN ss THEN StopOption(ss[session_id].codex, e) ELSE e,
    model_handlers |-> [m \in DOMAIN handlers |-> FALSE],
    terminals |-> IF session_id \in DOMAIN ss
                  THEN terms \ Range(ss[session_id].terminal_id) ELSE terms,
    wrote |-> <<>>, result |-> "ok" ]

\* stop_codex: stop every model handler; then, for a known session, close its
\* terminal, take its bridge out of the entry and stop it. The entry stays.
stop_codex(ss, session_id, e, handlers, terms) ==
  [ sessions |-> IF session_id \in DOMAIN ss
                 THEN Insert(ss, session_id,
                        [ss[session_id] EXCEPT !.terminal_id = <<>>, !.codex = <<>>])
                 ELSE ss,
    e |-> IF session_id \in DOMAIN ss THEN StopOption(ss[session_id].codex, e) ELSE e,
    model_handlers |-> [m \in DOMAIN handlers |-> FALSE],
    terminals |-> IF session_id \in DOMAIN ss
                  THEN terms \ Range(ss[session_id].terminal_id) ELSE terms,
    wrote |-> <<>>, result |-> "ok" ]

\* restart_codex: read the session's directory, stop_codex, start_codex.
restart_codex(ss, session_id, os, e, handlers, terms) ==
  IF session_id \notin DOMAIN ss
    THEN [sessions |-> ss, e |-> e, model_handlers |-> handlers,
          terminals |-> terms, wrote |-> <<>>, result |-> "err_not_initialized"]
  ELSE
    LET started(sp, st) ==
          [sessions |-> st.sessions, e |-> st.e, model_handlers |-> sp.model_handlers,
           terminals |-> sp.terminals, wrote |-> st.wrote, result |-> st.result]
        stopped(sp) ==
          started(sp, start_codex(sp.sessions, session_id,
                                  ss[session_id].project_dir, os, sp.e))
    IN stopped(stop_codex(ss, session_id, e, handlers, terms))

\* send_to_model: the model name in lower case; the session's directory; the
\* handler is started unless it holds a child (spawn: how the OS answers), and
\* the input is written to it.
send_to_model(ss, session_id, model, spawn, handlers) ==
  LET name == IF model = "Codex" THEN "codex" ELSE model
  IN IF session_id \notin DOMAIN ss
       THEN [model_handlers |-> handlers, result |-> "err_not_initialized"]
     ELSE IF ss[session_id].project_dir = ""
       THEN [model_handlers |-> handlers, result |-> "err_no_project_dir"]
     ELSE IF name \notin DOMAIN handlers
       THEN [model_handlers |-> handlers, result |-> "err_unknown_model"]
     ELSE IF ~handlers[name] /\ ~spawn
       THEN [model_handlers |-> handlers, result |-> "err_spawn"]
     ELSE [model_handlers |-> [handlers EXCEPT ![name] = TRUE], result |-> "ok"]

\* create_terminal of lib.rs: a known session remembers the terminal id, then
\* TerminalManager::create_terminal opens the pty and inserts the terminal
\* (pty: whether the OS lets it).
create_terminal(ss, session_id, id, pty, terms) ==
  [ sessions |-> IF session_id \in DOMAIN ss
                 THEN Insert(ss, session_id,
                        [ss[session_id] EXCEPT !.terminal_id = << id >>])
                 ELSE ss,
    terminals |-> IF pty THEN terms \cup {id} ELSE terms,
    result |-> IF pty THEN "ok" ELSE "err_pty" ]

(***************************************************************************)
(* RegistrySpec: the commands of lib.rs on the registry, and the death of  *)
(* a codex child.                                                          *)
(***************************************************************************)
MaxChildren == 3    \* codex children spawned in one behaviour of the registry

InitRegistry ==
  /\ bridge = CodexBridge_new
  /\ env = [alive |-> {}, uuid |-> 1, spawned |-> 0, owner |-> <<>>, served |-> {}]
  /\ last = Step("new", <<>>, "ok", <<>>, <<>>, 0)
  /\ hist = HistInit
  /\ focus = "registry"
  /\ count = [calls |-> 0, lines |-> 0, errlines |-> 0]
  /\ RegistryIdle
  /\ threads = NoThreads
  /\ unit = NoUnit

\* The directories and spawn answers the commands are given.
CommandDirs == {" ", "/p", "/p/.", "/q"}

CommandSpawns == { SpawnOk, [primary |-> "denied", script |-> TRUE, node |-> "ok"] }

\* A command returned result, having written wrote to a codex child.
Commanded(op, arg, result, wrote) ==
  /\ count.calls < MaxCommands
  /\ last' = Step(op, arg, result, wrote, <<>>, 0)
  /\ count' = [count EXCEPT !.calls = @ + 1]
  /\ UNCHANGED << bridge, hist, focus, threads, unit >>

\* A command on the session map and the codex children returned r.
OnSessions(op, arg, r) ==
  /\ r.e.spawned <= MaxChildren
  /\ Commanded(op, arg, r.result, r.wrote)
  /\ sessions' = r.sessions
  /\ env' = r.e

StartCodex(session_id, project_dir, os) ==
  /\ OnSessions("start_codex",
                [session_id |-> session_id, project_dir |-> project_dir, os |-> os],
                start_codex(sessions, session_id, project_dir, os, env))
  /\ UNCHANGED << model_handlers, terminals >>

SendToCodex(session_id, os) ==
  /\ OnSessions("send_to_codex", [session_id |-> session_id, os |-> os],
                send_to_codex(sessions, session_id, PlainPayload, os, env))
  /\ UNCHANGED << model_handlers, terminals >>

InterruptCodex(session_id) ==
  /\ OnSessions("interrupt_codex", [session_id |-> session_id],
                interrupt_codex(sessions, session_id, env))
  /\ UNCHANGED << model_handlers, terminals >>

ResolveCodexPermission(session_id, request_id, allow, scope) ==
  /\ OnSessions("resolve_codex_permission",
                [session_id |-> session_id, request_id |-> request_id,
                 allow |-> allow, scope |-> scope],
                resolve_codex_permission(sessions, session_id, request_id, allow,
                                         scope, env))
  /\ UNCHANGED << model_handlers, terminals >>

RestartCodex(session_id, os) ==
  LET returned(r) ==
        /\ OnSessions("restart_codex", [session_id |-> session_id, os |-> os],
                      [r EXCEPT !.e.served = {}])
        /\ model_handlers' = r.model_handlers
        /\ terminals' = r.terminals
  IN returned(restart_codex(sessions, session_id, os, env, model_handlers, terminals))

StopCodex(session_id) ==
  LET returned(r) ==
        /\ OnSessions("stop_codex", [session_id |-> session_id],
                      [r EXCEPT !.e.served = {}])
        /\ model_handlers' = r.model_handlers
        /\ terminals' = r.terminals
  IN returned(stop_codex(sessions, session_id, env, model_handlers, terminals))

SendToModel(session_id, model, spawn) ==
  LET returned(r) ==
        /\ Commanded("send_to_model",
                     [session_id |-> session_id, model |-> model, spawn |-> spawn],
                     r.result, <<>>)
        /\ model_handlers' = r.model_handlers
        /\ env' = [env EXCEPT !.served = IF r.result = "ok" THEN @ \cup {session_id}
                                         ELSE @]
  IN /\ returned(send_to_model(sessions, session_id, model, spawn, model_handlers))
     /\ UNCHANGED << sessions, terminals >>

CreateTerminal(session_id, id, pty) ==
  LET returned(r) ==
        /\ Commanded("create_terminal",
                     [session_id |-> session_id, id |-> id, pty |-> pty], r.result,
                     <<>>)
        /\ sessions' = r.sessions
        /\ terminals' = r.terminals
  IN /\ returned(create_terminal(sessions, session_id, id, pty, terminals))
     /\ UNCHANGED << env, model_handlers >>

\* A codex child exits on its own.
CodexChildDies(child) ==
  /\ child \in env.alive
  /\ env' = [env EXCEPT !.alive = @ \ {child}]
  /\ last' = Step("child_dies", child, "ok", <<>>, <<>>, 0)
  /\ UNCHANGED << bridge, hist, focus, count, sessions, model_handlers, terminals,
                  threads, unit >>

NextRegistry ==
  \/ \E s \in SessionIds, dir \in CommandDirs, os \in CommandSpawns :
       StartCodex(s, dir, os)
  \/ \E s \in SessionIds, os \in CommandSpawns : SendToCodex(s, os)
  \/ \E s \in SessionIds : InterruptCodex(s)
  \/ \E s \in SessionIds, answer \in { <<TRUE, "once">>, <<FALSE, "once">> } :
       ResolveCodexPermission(s, "exec:s1:c1", answer[1], answer[2])
  \/ \E s \in SessionIds, os \in CommandSpawns : RestartCodex(s, os)
  \/ \E s \in SessionIds : StopCodex(s)
  \/ \E s \in SessionIds, model \in {"Codex", "claude"}, spawn \in BOOLEAN :
       SendToModel(s, model, spawn)
  \/ \E s \in SessionIds, id \in TerminalIds, pty \in BOOLEAN :
       CreateTerminal(s, id, pty)
  \/ \E child \in 1..MaxChildren : CodexChildDies(child)

RegistrySpec == InitRegistry /\ [][NextRegistry]_vars

\* The bridge a session holds, if any.
Holds(ss, s) == s \in DOMAIN ss /\ ss[s].codex # <<>>

\* C4: a start_codex for a session that holds a bridge spawns nothing and leaves
\* the bridge as it is when the resolved directory is the stored one; with
\* another directory it stops the bridge held and, when it succeeds, has spawned
\* exactly one child, held by the one bridge it stored.
C4_StartCodexIdempotent ==
  [][ (last'.op = "start_codex" /\ Holds(sessions, last'.arg.session_id)) =>
        LET s == last'.arg.session_id
            old == sessions[s].codex[1]
        IN IF resolved_str(last'.arg.project_dir) = sessions[s].project_dir
             THEN /\ env'.spawned = env.spawned
                  /\ env'.alive = env.alive
                  /\ sessions'[s].codex = sessions[s].codex
                  /\ last'.result = "ok"
           ELSE /\ old.process \notin env'.alive
                /\ last'.result = "ok" =>
                     /\ env'.spawned = env.spawned + 1
                     /\ Len(sessions'[s].codex) = 1
                     /\ sessions'[s].codex[1].process = env'.spawned
                     /\ env'.alive = (env.alive \ {old.process}) \cup {env'.spawned}
                /\ last'.result # "ok" =>
                     /\ env'.spawned = env.spawned
                     /\ sessions'[s].codex = <<>> ]_vars

\* C4's case: a second start_codex on the directory of a running bridge, given
\* in another spelling, after one with another directory.
C4_Witness ==
  /\ last.op = "start_codex" /\ last.arg.project_dir = "/p/."
  /\ env.spawned = 2 /\ env.alive = {2}
  /\ Holds(sessions, last.arg.session_id)
  /\ sessions[last.arg.session_id].project_dir = "/p"
  /\ sessions[last.arg.session_id].codex[1].process = 2
  /\ count.calls = 3

\* C6: each session has at most one running codex child, and every running
\* codex child is the child of the bridge stored in the entry of the session it
\* was spawned for (the session map has one entry per id by construction).
C6_NoOrphanChild ==
  /\ \A s \in SessionIds :
       Cardinality({ c \in env.alive : env.owner[c] = s }) <= 1
  /\ \A c \in env.alive :
       /\ Holds(sessions, env.owner[c])
       /\ sessions[env.owner[c]].codex[1].process = c

\* C6's case: a session stopped after a restart, beside a session whose child
\* runs.
C6_Witness ==
  /\ last.op = "stop_codex" /\ env.spawned = 3
  /\ Cardinality(env.alive) = 1
  /\ \E s \in DOMAIN sessions : sessions[s].codex = <<>>

\* The codex children running for session s.
ChildrenOf(e, s) == { c \in e.alive : e.owner[c] = s }

\* C15: send_to_codex, interrupt_codex, resolve_codex_permission,
\* restart_codex and send_to_model for a session id without an entry return an
\* error, spawn no process and leave the session map as it is; only start_codex
\* adds an entry to the session map.
C15_UnknownSessionRefused ==
  [][ /\ ( /\ last'.op \in {"send_to_codex", "interrupt_codex",
                            "resolve_codex_permission", "restart_codex",
                            "send_to_model"}
           /\ last'.arg.session_id \notin DOMAIN sessions ) =>
           /\ last'.result # "ok"
           /\ env'.spawned = env.spawned /\ env'.alive = env.alive
           /\ model_handlers' = model_handlers
           /\ sessions' = sessions
      /\ DOMAIN sessions' # DOMAIN sessions => last'.op = "start_codex" ]_vars

\* C15's case: a restart_codex of an unknown session refused while another
\* session holds a bridge.
C15_Witness ==
  /\ last.op = "restart_codex" /\ last.result = "err_not_initialized"
  /\ last.arg.session_id \notin DOMAIN sessions
  /\ \E s \in DOMAIN sessions : Holds(sessions, s)
  /\ env.alive # {}

\* C16: stop_codex succeeds; for a known session it stops the bridge held and
\* closes the terminal remembered, and leaves the entry with its directory;
\* for an unknown session it changes no session. A restart_codex or
\* send_to_codex of the session right after it that succeeds has started a
\* bridge on that directory.
C16_StopKeepsEntry ==
  [][ /\ last'.op = "stop_codex" =>
           LET s == last'.arg.session_id
           IN /\ last'.result = "ok"
              /\ DOMAIN sessions' = DOMAIN sessions
              /\ \A o \in DOMAIN sessions : o # s => sessions'[o] = sessions[o]
              /\ s \in DOMAIN sessions =>
                   /\ sessions'[s].project_dir = sessions[s].project_dir
                   /\ sessions'[s].codex = <<>>
                   /\ sessions'[s].terminal_id = <<>>
                   /\ ChildrenOf(env', s) = {}
                   /\ \A t \in Range(sessions[s].terminal_id) : t \notin terminals'
      /\ ( /\ last.op = "stop_codex"
           /\ last'.op \in {"restart_codex", "send_to_codex"}
           /\ last'.arg.session_id = last.arg.session_id
           /\ last'.arg.session_id \in DOMAIN sessions
           /\ last'.result = "ok" ) =>
           LET s == last'.arg.session_id
           IN /\ env'.spawned = env.spawned + 1
              /\ Holds(sessions', s)
              /\ sessions'[s].codex[1].process = env'.spawned
              /\ sessions'[s].codex[1].process \in env'.alive
              /\ sessions'[s].codex[1].project_dir = sessions[s].project_dir
              /\ sessions'[s].project_dir = sessions[s].project_dir ]_vars

\* C16's case: a session started on /q whose second child a send_to_codex
\* spawned, which it does only for a session stopped before.
C16_Witness ==
  /\ last.op = "send_to_codex" /\ last.result = "ok"
  /\ DOMAIN sessions = {last.arg.session_id}
  /\ sessions[last.arg.session_id].project_dir = "/q"
  /\ sessions[last.arg.session_id].codex[1].project_dir = "/q"
  /\ env.spawned = 2 /\ env.alive = {2} /\ count.calls = 3

\* C17: a send_to_codex for a known session without a bridge either succeeds,
\* having spawned exactly one child on the session's stored directory, stored
\* its bridge in the entry and written the message to it, or returns the error
\* of the start, with nothing spawned and the session without a bridge; it
\* succeeds when the child can be spawned.
C17_LazyStart ==
  [][ ( /\ last'.op = "send_to_codex"
        /\ last'.arg.session_id \in DOMAIN sessions
        /\ sessions[last'.arg.session_id].codex = <<>> ) =>
        LET s == last'.arg.session_id
        IN /\ last'.arg.os = SpawnOk => last'.result = "ok"
           /\ last'.result = "ok" =>
                /\ env'.spawned = env.spawned + 1
                /\ env'.alive = env.alive \cup {env'.spawned}
                /\ env'.owner[env'.spawned] = s
                /\ Holds(sessions', s)
                /\ sessions'[s].codex[1].process = env'.spawned
                /\ sessions'[s].codex[1].project_dir = sessions[s].project_dir
                /\ Len(last'.wrote) = 1
                /\ last'.wrote[1].op = "UserTurn"
                /\ last'.wrote[1].cwd = sessions[s].project_dir
           /\ last'.result # "ok" =>
                /\ env'.spawned = env.spawned /\ env'.alive = env.alive
                /\ sessions'[s].codex = <<>>
                /\ last'.wrote = <<>>
           /\ sessions'[s].project_dir = sessions[s].project_dir ]_vars

\* C17's case: the first child of a session spawned by a send_to_codex, after
\* a start_codex that could not spawn one.
C17_Witness ==
  /\ last.op = "send_to_codex" /\ last.result = "ok" /\ Len(last.wrote) = 1
  /\ env.spawned = 1 /\ env.alive = {1}
  /\ env.owner[1] = last.arg.session_id
  /\ sessions[last.arg.session_id].codex[1].process = 1

\* C18: a send_to_codex for a session whose bridge's child has exited, when a
\* child can be spawned, succeeds, writes the message and leaves the session
\* with a bridge whose child runs.
C18_SendRevivesDeadChild ==
  [][ ( /\ last'.op = "send_to_codex"
        /\ Holds(sessions, last'.arg.session_id)
        /\ sessions[last'.arg.session_id].codex[1].process \notin env.alive
        /\ last'.arg.os = SpawnOk ) =>
        /\ last'.result = "ok"
        /\ Len(last'.wrote) = 1
        /\ Holds(sessions', last'.arg.session_id)
        /\ sessions'[last'.arg.session_id].codex[1].process \in env'.alive ]_vars

\* C19: a start_codex that fails leaves the session with an entry without a
\* bridge, with no child running for it (the child of the bridge held before
\* included), with nothing spawned, and with the requested directory stored.
C19_FailedStart ==
  [][ ( last'.op = "start_codex" /\ last'.result # "ok" ) =>
        LET s == last'.arg.session_id
        IN /\ s \in DOMAIN sessions'
           /\ sessions'[s].codex = <<>>
           /\ ChildrenOf(env', s) = {}
           /\ Holds(sessions, s) => sessions[s].codex[1].process \notin env'.alive
           /\ env'.spawned = env.spawned
           /\ sessions'[s].project_dir = resolved_str(last'.arg.project_dir) ]_vars

\* C19's case: a start_codex on /q that failed for a session whose bridge on
\* another directory had spawned a child.
C19_Witness ==
  /\ last.op = "start_codex" /\ last.result # "ok"
  /\ last.arg.project_dir = "/q"
  /\ sessions[last.arg.session_id].project_dir = "/q"
  /\ sessions[last.arg.session_id].codex = <<>>
  /\ env.spawned = 1 /\ env.owner[1] = last.arg.session_id /\ env.alive = {}
  /\ count.calls = 2

\* The commands on a session.
SessionCommands ==
  {"start_codex", "send_to_codex", "interrupt_codex", "resolve_codex_permission",
   "restart_codex", "stop_codex"}

\* C20: a command on a session leaves every other session's entry (directory,
\* bridge, terminal id), codex child and terminal as they were, and leaves
\* running the model handler child that was sent another session's inputs.
C20_OtherSessionsUntouched ==
  [][ last'.op \in SessionCommands =>
        \A o \in SessionIds \ {last'.arg.session_id} :
          /\ o \in DOMAIN sessions' <=> o \in DOMAIN sessions
          /\ o \in DOMAIN sessions =>
               /\ sessions'[o] = sessions[o]
               /\ \A t \in Range(sessions[o].terminal_id) :
                    t \in terminals => t \in terminals'
          /\ ChildrenOf(env', o) = ChildrenOf(env, o)
          /\ ( o \in env.served /\ model_handlers["codex"] ) =>
               model_handlers'["codex"] ]_vars

(***************************************************************************)
(* LockSpec: the commands as the threads that run them see them: which     *)
(* registry mutex a command takes and releases (a MutexGuard lives to the  *)
(* end of its block), and which blocking operation it starts in between.   *)
(* What the maps hold is left out: flags says what the command finds. The  *)
(* commands declared fn run on the main thread, those declared async fn on *)
(* a thread of the async runtime.                                          *)
(***************************************************************************)
Lock(m) == << [do |-> "lock", on |-> m] >>
Unlock(m) == << [do |-> "unlock", on |-> m] >>
Blocking(op) == << [do |-> "block", on |-> op] >>
When(cond, steps) == IF cond THEN steps ELSE <<>>

\* CodexBridge::stop and CodexBridge::start as blocking operations.
bridge_stop == Blocking("kill_wait_join")
bridge_start == Blocking("spawn")

\* TerminalManager::close_terminal.
close_terminal_steps(f) ==
  Lock("terminals")
    \o When(f.terminal, Blocking("kill") \o Blocking("join"))
    \o Unlock("terminals")

start_codex_steps(f) ==
  Lock("SESSION_MANAGER")
    \o When(~(f.bridge /\ f.same_dir), When(f.bridge, bridge_stop) \o bridge_start)
    \o Unlock("SESSION_MANAGER")

send_to_codex_steps(f) ==
  Lock("SESSION_MANAGER")
    \o When(f.known, When(~f.bridge, bridge_start) \o Blocking("write_stdin"))
    \o Unlock("SESSION_MANAGER")

\* interrupt_codex and resolve_codex_permission.
write_to_bridge_steps(f) ==
  Lock("SESSION_MANAGER")
    \o When(f.known /\ f.bridge, Blocking("write_stdin"))
    \o Unlock("SESSION_MANAGER")

stop_codex_steps(f) ==
  Lock("MODEL_HANDLERS") \o When(f.handler, Blocking("kill")) \o Unlock("MODEL_HANDLERS")
    \o Lock("SESSION_MANAGER")
    \o When(f.known, When(f.terminal, close_terminal_steps(f))
                       \o When(f.bridge, bridge_stop))
    \o Unlock("SESSION_MANAGER")

restart_codex_steps(f) ==
  Lock("SESSION_MANAGER") \o Unlock("SESSION_MANAGER")
    \o When(f.known, stop_codex_steps(f)
                       \o start_codex_steps([f EXCEPT !.bridge = FALSE]))

send_to_model_steps(f) ==
  Lock("SESSION_MANAGER") \o Unlock("SESSION_MANAGER")
    \o When(f.known, Lock("MODEL_HANDLERS")
                       \o When(~f.handler, Blocking("spawn"))
                       \o Blocking("write_stdin")
                       \o Unlock("MODEL_HANDLERS"))

stop_model_steps(f) ==
  Lock("MODEL_HANDLERS") \o When(f.handler, Blocking("kill")) \o Unlock("MODEL_HANDLERS")

create_terminal_steps(f) ==
  Lock("SESSION_MANAGER") \o Unlock("SESSION_MANAGER")
    \o Blocking("spawn")
    \o Lock("terminals") \o Unlock("terminals")

write_to_terminal_steps(f) ==
  Lock("terminals") \o When(f.terminal, Blocking("write_pty")) \o Unlock("terminals")

\* A close_terminal that takes the terminal map before the session map.
lib_close_terminal_steps_terminals_first(f) ==
  Lock("terminals")
    \o Lock("SESSION_MANAGER") \o Unlock("SESSION_MANAGER")
    \o When(f.terminal, Blocking("kill") \o Blocking("join"))
    \o Unlock("terminals")

lib_close_terminal_steps(f) ==
  Lock("SESSION_MANAGER") \o close_terminal_steps(f) \o Unlock("SESSION_MANAGER")

\* LspManager::send_request, through lsp_proxy.
send_request_steps(f) ==
  Lock("servers")
    \o When(~f.server, Blocking("spawn"))
    \o Blocking("write_stdin") \o Blocking("read_output")
    \o Unlock("servers")

execute_command_steps(f) ==
  Lock("SESSION_MANAGER") \o Unlock("SESSION_MANAGER") \o Blocking("spawn_wait")

\* The checkpoint commands, which call it first.
get_session_project_dir_steps(f) ==
  Lock("SESSION_MANAGER") \o Unlock("SESSION_MANAGER")

SyncCommands ==
  {"start_codex", "send_to_codex", "interrupt_codex", "resolve_codex_permission",
   "restart_codex", "stop_codex", "send_to_model", "stop_model", "create_terminal",
   "write_to_terminal", "close_terminal", "lsp_proxy"}

AsyncCommands == {"execute_command", "get_session_project_dir"}

Steps(cmd, f) ==
  CASE cmd = "start_codex" -> start_codex_steps(f)
    [] cmd = "send_to_codex" -> send_to_codex_steps(f)
    [] cmd \in {"interrupt_codex", "resolve_codex_permission"} -> write_to_bridge_steps(f)
    [] cmd = "restart_codex" -> restart_codex_steps(f)
    [] cmd = "stop_codex" -> stop_codex_steps(f)
    [] cmd = "send_to_model" -> send_to_model_steps(f)
    [] cmd = "stop_model" -> stop_model_steps(f)
    [] cmd = "create_terminal" -> create_terminal_steps(f)
    [] cmd = "write_to_terminal" -> write_to_terminal_steps(f)
    [] cmd = "close_terminal" -> lib_close_terminal_steps(f)
    [] cmd = "lsp_proxy" -> send_request_steps(f)
    [] cmd = "execute_command" -> execute_command_steps(f)
    [] OTHER -> get_session_project_dir_steps(f)

Threads == {"main", "async"}

CommandsOf(t) == IF t = "main" THEN SyncCommands ELSE AsyncCommands

\* What a command may find: the session known, a bridge in its entry, the
\* directory given the stored one, a terminal under the id, a child in the
\* model handler, a server for the language.
Flags ==
  [known : BOOLEAN, bridge : BOOLEAN, same_dir : BOOLEAN, terminal : BOOLEAN,
   handler : BOOLEAN, server : BOOLEAN]

IdleThread ==
  [cmd |-> "", session |-> "", steps |-> <<>>, pc |-> 1, held |-> {}, blocked |-> ""]

InitLock ==
  /\ bridge = CodexBridge_new
  /\ env = [alive |-> {}, uuid |-> 1, spawned |-> 0]
  /\ last = Step("new", <<>>, "ok", <<>>, <<>>, 0)
  /\ hist = HistInit
  /\ focus = "lock"
  /\ count = [calls |-> 0, lines |-> 0, errlines |-> 0]
  /\ RegistryIdle
  /\ threads = [t \in Threads |-> IdleThread]
  /\ unit = NoUnit

OutsideLock == UNCHANGED << bridge, env, last, hist, focus, count, sessions,
                            model_handlers, terminals, unit >>

AtStep(t, do) ==
  /\ threads[t].pc <= Len(threads[t].steps)
  /\ threads[t].steps[threads[t].pc].do = do
  /\ threads[t].blocked = ""

Invoke(t, cmd, session, f) ==
  /\ threads[t] = IdleThread
  /\ threads' = [threads EXCEPT ![t] =
                   [IdleThread EXCEPT !.cmd = cmd, !.session = session,
                                      !.steps = Steps(cmd, f)]]
  /\ OutsideLock

\* Mutex::lock: waits while another thread holds the mutex.
Acquire(t) ==
  /\ AtStep(t, "lock")
  /\ \A u \in Threads : threads[t].steps[threads[t].pc].on \notin threads[u].held
  /\ threads' = [threads EXCEPT ![t].held = @ \cup {threads[t].steps[threads[t].pc].on},
                                ![t].pc = @ + 1]
  /\ OutsideLock

\* The guard is dropped.
Release(t) ==
  /\ AtStep(t, "unlock")
  /\ threads' = [threads EXCEPT ![t].held = @ \ {threads[t].steps[threads[t].pc].on},
                                ![t].pc = @ + 1]
  /\ OutsideLock

\* The thread enters a blocking operation ...
BlockingBegins(t) ==
  /\ AtStep(t, "block")
  /\ threads' = [threads EXCEPT ![t].blocked = threads[t].steps[threads[t].pc].on]
  /\ OutsideLock

\* ... and leaves it when the OS or the child lets it.
BlockingEnds(t) ==
  /\ threads[t].blocked # ""
  /\ threads' = [threads EXCEPT ![t].blocked = "", ![t].pc = @ + 1]
  /\ OutsideLock

Return(t) ==
  /\ threads[t].steps # <<>>
  /\ threads[t].pc > Len(threads[t].steps)
  /\ threads' = [threads EXCEPT ![t] = IdleThread]
  /\ OutsideLock

NextLock ==
  \/ \E t \in Threads, session \in SessionIds, f \in Flags :
       \E cmd \in CommandsOf(t) : Invoke(t, cmd, session, f)
  \/ \E t \in Threads : Acquire(t)
  \/ \E t \in Threads : Release(t)
  \/ \E t \in Threads : BlockingBegins(t)
  \/ \E t \in Threads : BlockingEnds(t)
  \/ \E t \in Threads : Return(t)

LockSpec == InitLock /\ [][NextLock]_vars

\* The thread waits for a mutex that u holds.
WaitsFor(t, u) ==
  /\ t # u
  /\ AtStep(t, "lock")
  /\ threads[t].steps[threads[t].pc].on \in threads[u].held

\* C9: a thread in a blocking operation holds no registry mutex, and so no
\* command waits for a mutex held by a command of another session that is in a
\* blocking operation.
C9_NoMutexAcrossBlocking ==
  /\ \A t \in Threads : threads[t].blocked # "" => threads[t].held = {}
  /\ \A t, u \in Threads :
       (WaitsFor(t, u) /\ threads[u].blocked # "") =>
         threads[t].session = threads[u].session

(***************************************************************************)
(* The component specifications: each is about one component that stands   *)
(* apart from the bridge and the registry, keeps its state in unit and     *)
(* leaves the other variables as they start.                               *)
(***************************************************************************)
Component(name) ==
  /\ bridge = CodexBridge_new
  /\ env = [alive |-> {}, uuid |-> 1, spawned |-> 0]
  /\ last = Step("new", <<>>, "ok", <<>>, <<>>, 0)
  /\ hist = HistInit
  /\ focus = name
  /\ count = [calls |-> 0, lines |-> 0, errlines |-> 0]
  /\ RegistryIdle
  /\ threads = NoThreads

OutsideUnit == UNCHANGED << bridge, env, last, hist, focus, count, sessions,
                            model_handlers, terminals, threads >>

(***************************************************************************)
(* TokenSpec: emit_token_stats and compute_context_usage of                *)
(* codex_bridge.rs on the token counts of a TokenCount event. An Option is *)
(* the sequence of its at most one value; a percentage is the fraction     *)
(* num / den it is computed from.                                          *)
(***************************************************************************)
BASELINE_TOKENS == 12000

\* u64::saturating_sub and Ord::min.
saturating_sub(a, b) == IF a >= b THEN a - b ELSE 0
min(a, b) == IF a <= b THEN a ELSE b

\* (n / d) * 100.0 and 100.0 - (n / d) * 100.0.
Pct(n, d) == [num |-> 100 * n, den |-> d]
PctRest(n, d) == [num |-> 100 * d - 100 * n, den |-> d]

\* A compute_context_usage that does not take the baseline off the tokens in
\* context.
compute_context_usage_whole_context(usage, context_window) ==
  IF context_window <= BASELINE_TOKENS
    THEN [effective_window |-> << 0 >>, used_tokens |-> << 0 >>,
          remaining_tokens |-> << 0 >>, used_pct |-> <<>>, remaining_pct |-> <<>>]
  ELSE
    LET effective_window == saturating_sub(context_window, BASELINE_TOKENS)
        tokens_in_context ==
          saturating_sub(usage.total_tokens, usage.reasoning_output_tokens)
        used_tokens == min(tokens_in_context, effective_window)
        remaining_tokens == saturating_sub(effective_window, used_tokens)
    IN [effective_window |-> << effective_window >>,
        used_tokens |-> << used_tokens >>,
        remaining_tokens |-> << remaining_tokens >>,
        used_pct |-> << PctRest(remaining_tokens, effective_window) >>,
        remaining_pct |-> << Pct(remaining_tokens, effective_window) >>]

\* compute_context_usage.
compute_context_usage(usage, context_window) ==
  IF context_window <= BASELINE_TOKENS
    THEN [effective_window |-> << 0 >>, used_tokens |-> << 0 >>,
          remaining_tokens |-> << 0 >>, used_pct |-> <<>>, remaining_pct |-> <<>>]
  ELSE
    LET effective_window == saturating_sub(context_window, BASELINE_TOKENS)
        tokens_in_context ==
          saturating_sub(usage.total_tokens, usage.reasoning_output_tokens)
        used_tokens ==
          min(saturating_sub(tokens_in_context, BASELINE_TOKENS), effective_window)
        remaining_tokens == saturating_sub(effective_window, used_tokens)
    IN IF effective_window = 0
         THEN [effective_window |-> << 0 >>, used_tokens |-> << 0 >>,
               remaining_tokens |-> << 0 >>, used_pct |-> <<>>,
               remaining_pct |-> <<>>]
       ELSE [effective_window |-> << effective_window >>,
             used_tokens |-> << used_tokens >>,
             remaining_tokens |-> << remaining_tokens >>,
             used_pct |-> << PctRest(remaining_tokens, effective_window) >>,
             remaining_pct |-> << Pct(remaining_tokens, effective_window) >>]

\* emit_token_stats: the context fields of the telemetry:tokens payload; without
\* a context window all of them are null.
emit_token_stats(info) ==
  IF info.model_context_window = <<>>
    THEN [effective_window |-> <<>>, used_tokens |-> <<>>, remaining_tokens |-> <<>>,
          used_pct |-> <<>>, remaining_pct |-> <<>>]
  ELSE compute_context_usage(info.last_token_usage, info.model_context_window[1])

\* The token counts and context windows of the events.
TokenCounts == {0, 1000, 11999, 12000, 12001, 15000, 250000}
ReasoningCounts == {0, 1000, 15000, 300000}
ContextWindows == {0, 11999, 12000, 12001, 20000, 200000}

InitToken ==
  /\ Component("token")
  /\ \E total \in TokenCounts, reasoning \in ReasoningCounts,
        window \in {<<>>} \cup { << w >> : w \in ContextWindows } :
       unit = [ info |-> [ last_token_usage |->
                             [total_tokens |-> total,
                              reasoning_output_tokens |-> reasoning],
                           model_context_window |-> window ],
                payload |-> <<>> ]

EmitTokenStats ==
  /\ unit.payload = <<>>
  /\ unit' = [unit EXCEPT !.payload = << emit_token_stats(unit.info) >>]
  /\ OutsideUnit

NextToken == EmitTokenStats

TokenSpec == InitToken /\ [][NextToken]_vars

Max0(a) == IF a > 0 THEN a ELSE 0

\* C21: with a context window, the effective window is max(window - 12000, 0),
\* the used tokens are max(total - reasoning, 0) - 12000 clamped to
\* [0, effective], the remaining tokens are effective - used, so that
\* used + remaining = effective and used <= effective, and the two percentages
\* are absent exactly when the effective window is 0; window 20000, total
\* 15000, reasoning 1000 give effective 8000, used 2000, remaining 6000.
C21_ContextUsage ==
  ( unit.payload # <<>> /\ unit.info.model_context_window # <<>> ) =>
    LET r == unit.payload[1]
        window == unit.info.model_context_window[1]
        total == unit.info.last_token_usage.total_tokens
        reasoning == unit.info.last_token_usage.reasoning_output_tokens
        effective == Max0(window - 12000)
        raw == Max0(Max0(total - reasoning) - 12000)
        used == IF raw > effective THEN effective ELSE raw
    IN /\ r.effective_window = << effective >>
       /\ r.used_tokens = << used >>
       /\ r.remaining_tokens = << effective - used >>
       /\ r.used_tokens[1] + r.remaining_tokens[1] = r.effective_window[1]
       /\ r.used_tokens[1] <= r.effective_window[1]
       /\ (r.used_pct = <<>>) <=> (effective = 0)
       /\ (r.remaining_pct = <<>>) <=> (effective = 0)
       /\ ( window = 20000 /\ total = 15000 /\ reasoning = 1000 ) =>
            /\ r.effective_window = << 8000 >>
            /\ r.used_tokens = << 2000 >>
            /\ r.remaining_tokens = << 6000 >>

\* C21's case: the payload for window 20000, total 15000, reasoning 1000.
C21_Witness ==
  /\ unit.payload # <<>>
  /\ unit.info.model_context_window = << 20000 >>
  /\ unit.info.last_token_usage =
       [total_tokens |-> 15000, reasoning_output_tokens |-> 1000]
  /\ unit.payload[1].used_tokens = << 2000 >>

(***************************************************************************)
(* CheckpointSpec: the commands of checkpoint.rs on the checkpoints of one *)
(* session. A path is the sequence of its components, an absolute one      *)
(* beginning with "/". unit is                                             *)
(*   project  the files of the project: target path -> content             *)
(*   store    the checkpoint directories: id -> [timestamp, files (the     *)
(*            file_<i>.json snapshots), mapping (file_mapping.json: path   *)
(*            -> index)]; indices count from 1 here, from 0 in the code    *)
(*   last     the last command: [op, arg, result, out]                     *)
(*   ops      the commands run so far                                      *)
(* The commands are taken one at a time and file system errors are left    *)
(* out. A save under an id that exists replaces metadata.json and          *)
(* file_mapping.json; snapshot files of the earlier save beyond the new    *)
(* count stay on disk, where no mapping leads to them.                     *)
(***************************************************************************)
MaxOps == 4           \* commands in one behaviour
MaxTime == 3          \* the clock readings Utc::now() gives

ProjectBase == << "/", "p" >>               \* project_root_for(session_id)

\* resolve_target_path.
resolve_target_path(base, file_path) ==
  IF file_path # <<>> /\ file_path[1] = "/"
    THEN IF Len(file_path) >= Len(base) /\ SubSeq(file_path, 1, Len(base)) = base
           THEN base \o SubSeq(file_path, Len(base) + 1, Len(file_path))
         ELSE IF Len(file_path) > 1
           THEN Append(base, file_path[Len(file_path)])
         ELSE base
  ELSE base \o file_path

\* files.iter().enumerate().map(|(i, f)| (f.path.clone(), i)).collect(): of
\* the snapshots of one path the last one stays in the map.
file_mapping(files) ==
  [ path \in { files[i].path : i \in 1..Len(files) } |->
      CHOOSE i \in 1..Len(files) :
        /\ files[i].path = path
        /\ \A j \in 1..Len(files) : files[j].path = path => j <= i ]

\* save_checkpoint_files: the checkpoint directory after it.
save_checkpoint_files(store, checkpoint_id, files, now) ==
  Insert(store, checkpoint_id,
         [timestamp |-> now, file_count |-> Len(files), files |-> files,
          mapping |-> file_mapping(files)])

\* The loop of the restore commands over mapping.iter(), order being the
\* order the HashMap iterates in: each path's snapshot is read and its
\* content for the mode written to the resolved target.
RECURSIVE RestoreAll(_, _, _, _)
RestoreAll(project, checkpoint, current, order) ==
  IF order = <<>> THEN project
  ELSE LET file_path == Head(order)
           snapshot == checkpoint.files[checkpoint.mapping[file_path]]
           content == IF current THEN snapshot.current_content
                      ELSE snapshot.original_content
       IN RestoreAll(Insert(project, resolve_target_path(ProjectBase, file_path),
                            content),
                     checkpoint, current, Tail(order))

\* restore_checkpoint_with_mode.
restore_checkpoint_with_mode(project, store, checkpoint_id, mode, order) ==
  IF checkpoint_id \notin DOMAIN store
    THEN [project |-> project, result |-> "err_not_found"]
  ELSE [project |-> RestoreAll(project, store[checkpoint_id], mode = "current", order),
        result |-> "ok"]

\* restore_checkpoint.
restore_checkpoint(project, store, checkpoint_id, order) ==
  IF checkpoint_id \notin DOMAIN store
    THEN [project |-> project, result |-> "err_not_found"]
  ELSE [project |-> RestoreAll(project, store[checkpoint_id], FALSE, order),
        result |-> "ok"]

\* delete_checkpoint.
delete_checkpoint(store, checkpoint_id) == Remove(store, checkpoint_id)

\* checkpoints.sort_by(|a, b| b.1.cmp(&a.1)): the ids, newest first.
RECURSIVE NewestFirst(_, _)
NewestFirst(store, ids) ==
  IF ids = {} THEN <<>>
  ELSE LET newest == CHOOSE c \in ids :
                       \A d \in ids : store[d].timestamp <= store[c].timestamp
       IN << newest >> \o NewestFirst(store, ids \ {newest})

\* list_checkpoints: the ids of the metadata returned.
list_checkpoints(store) == NewestFirst(store, DOMAIN store)

\* A clean_old_checkpoints that keeps one checkpoint more than asked.
clean_old_checkpoints_keeps_one_more(store, keep_count) ==
  LET checkpoints == NewestFirst(store, DOMAIN store)
      kept == { checkpoints[i] : i \in 1..min(keep_count + 1, Len(checkpoints)) }
  IN [ c \in kept |-> store[c] ]

\* clean_old_checkpoints: sort newest first, skip keep_count, remove the rest.
clean_old_checkpoints(store, keep_count) ==
  LET checkpoints == NewestFirst(store, DOMAIN store)
      kept == { checkpoints[i] : i \in 1..min(keep_count, Len(checkpoints)) }
  IN [ c \in kept |-> store[c] ]

\* The inputs: checkpoint ids, snapshot lists, modes, keep counts.
CheckpointIds == {"k1", "k2", "k3"}

Snapshot(path, n) ==
  [path |-> path, original_content |-> "o" \o ToString(n),
   current_content |-> "c" \o ToString(n)]

SnapshotLists ==
  { << Snapshot(<< "a" >>, 1) >>,
    << Snapshot(<< "a" >>, 1), Snapshot(<< "d", "b" >>, 2) >>,
    << Snapshot(<< "a" >>, 1), Snapshot(<< "a" >>, 2) >>,
    << Snapshot(<< "/", "p", "a" >>, 1), Snapshot(<< "/", "x", "a" >>, 2) >> }

Modes == {"current", "original", "Current"}

\* The orders a HashMap with these keys may iterate in.
Orders(keys) ==
  { order \in [1..Cardinality(keys) -> keys] :
      \A i, j \in 1..Cardinality(keys) : i # j => order[i] # order[j] }

\* The paths of the file mapping of a checkpoint.
MappedPaths(store, checkpoint_id) ==
  IF checkpoint_id \in DOMAIN store THEN DOMAIN store[checkpoint_id].mapping ELSE {}

InitCheckpoint ==
  /\ Component("checkpoint")
  /\ unit = [ project |-> EmptyMap, store |-> EmptyMap,
              last |-> [op |-> "new", arg |-> <<>>, result |-> "ok", out |-> <<>>],
              ops |-> 0 ]

\* A command returned.
Ran(op, arg, result, out, project, store) ==
  /\ unit.ops < MaxOps
  /\ unit' = [ project |-> project, store |-> store,
               last |-> [op |-> op, arg |-> arg, result |-> result, out |-> out],
               ops |-> unit.ops + 1 ]
  /\ OutsideUnit

\* Utc::now(): a wall clock reading, not one given before.
ClockReadings == (1..MaxTime) \ { unit.store[c].timestamp : c \in DOMAIN unit.store }

SaveCheckpointFiles(checkpoint_id, files, now) ==
  /\ now \in ClockReadings
  /\ Ran("save_checkpoint_files", [checkpoint_id |-> checkpoint_id, files |-> files],
         "ok", <<>>, unit.project,
         save_checkpoint_files(unit.store, checkpoint_id, files, now))

\* The project's files change between a save and a restore.
ModifyProject(target, content) ==
  /\ unit.store # EmptyMap
  /\ Ran("modify", [target |-> target, content |-> content], "ok", <<>>,
         Insert(unit.project, target, content), unit.store)

RestoreCheckpoint(checkpoint_id) ==
  LET returned(r) ==
        Ran("restore_checkpoint", [checkpoint_id |-> checkpoint_id, mode |-> "original"],
            r.result, <<>>, r.project, unit.store)
  IN \E order \in Orders(MappedPaths(unit.store, checkpoint_id)) :
       returned(restore_checkpoint(unit.project, unit.store, checkpoint_id, order))

RestoreCheckpointWithMode(checkpoint_id, mode) ==
  LET returned(r) ==
        Ran("restore_checkpoint_with_mode",
            [checkpoint_id |-> checkpoint_id, mode |-> mode],
            r.result, <<>>, r.project, unit.store)
  IN \E order \in Orders(MappedPaths(unit.store, checkpoint_id)) :
       returned(restore_checkpoint_with_mode(unit.project, unit.store, checkpoint_id,
                                             mode, order))

DeleteCheckpoint(checkpoint_id) ==
  Ran("delete_checkpoint", [checkpoint_id |-> checkpoint_id], "ok", <<>>,
      unit.project, delete_checkpoint(unit.store, checkpoint_id))

CleanOldCheckpoints(keep_count) ==
  Ran("clean_old_checkpoints", [keep_count |-> keep_count], "ok", <<>>,
      unit.project, clean_old_checkpoints(unit.store, keep_count))

ListCheckpoints ==
  Ran("list_checkpoints", <<>>, "ok", list_checkpoints(unit.store),
      unit.project, unit.store)

NextCheckpoint ==
  \/ \E c \in CheckpointIds, files \in SnapshotLists, now \in 1..MaxTime :
       SaveCheckpointFiles(c, files, now)
  \/ \E target \in { << "/", "p", "a" >>, << "/", "p", "d", "b" >> } :
       ModifyProject(target, "m")
  \/ \E c \in CheckpointIds : RestoreCheckpoint(c)
  \/ \E c \in CheckpointIds, mode \in Modes : RestoreCheckpointWithMode(c, mode)
  \/ \E c \in CheckpointIds : DeleteCheckpoint(c)
  \/ \E k \in 0..(MaxTime + 1) : CleanOldCheckpoints(k)
  \/ ListCheckpoints

CheckpointSpec == InitCheckpoint /\ [][NextCheckpoint]_vars

\* The content a restore in the mode writes for a snapshot.
ContentFor(snapshot, mode) ==
  IF mode = "current" THEN snapshot.current_content ELSE snapshot.original_content

\* A snapshot's path under the project root.
UnderRoot(path) == IF path[1] = "/" THEN path ELSE ProjectBase \o path

IsUnderRoot(path) ==
  path[1] = "/" => ( Len(path) > Len(ProjectBase)
                     /\ SubSeq(path, 1, Len(ProjectBase)) = ProjectBase )

\* C22: a restore of a saved checkpoint succeeds and leaves, for each of the
\* snapshots saved, the file at the snapshot's path under the project root
\* with the snapshot's current_content in mode 'current' and with its
\* original_content in any other mode and after restore_checkpoint, whatever
\* the project held before.
C22_RoundTrip ==
  [][ ( /\ unit'.last.op \in {"restore_checkpoint", "restore_checkpoint_with_mode"}
        /\ unit'.last.arg.checkpoint_id \in DOMAIN unit.store ) =>
        LET files == unit.store[unit'.last.arg.checkpoint_id].files
        IN /\ unit'.last.result = "ok"
           /\ \A i \in 1..Len(files) :
                IsUnderRoot(files[i].path) =>
                  /\ UnderRoot(files[i].path) \in DOMAIN unit'.project
                  /\ unit'.project[UnderRoot(files[i].path)] =
                       ContentFor(files[i], unit'.last.arg.mode) ]_vars

\* C23: clean_old_checkpoints(k) leaves min(k, n) of the n checkpoints, each
\* with a timestamp more recent than that of every checkpoint it deleted, and
\* leaves those as they were: none for k = 0, all for k >= n. list_checkpoints
\* after it returns the first min(k, n) entries of what it returned before.
C23_KeepNewest ==
  [][ unit'.last.op = "clean_old_checkpoints" =>
        LET k == unit'.last.arg.keep_count
            before == DOMAIN unit.store
            after == DOMAIN unit'.store
            n == Cardinality(before)
        IN /\ after \subseteq before
           /\ Cardinality(after) = (IF k < n THEN k ELSE n)
           /\ \A c \in after : unit'.store[c] = unit.store[c]
           /\ \A c \in after, d \in before \ after :
                unit.store[c].timestamp > unit.store[d].timestamp
           /\ k = 0 => after = {}
           /\ k >= n => after = before
           /\ list_checkpoints(unit'.store) =
                SubSeq(list_checkpoints(unit.store), 1, IF k < n THEN k ELSE n)
           /\ unit'.project = unit.project ]_vars

\* C23's case: of three checkpoints a clean with k = 1 kept k2, the one with
\* the most recent timestamp.
C23_Witness ==
  /\ unit.last.op = "clean_old_checkpoints" /\ unit.last.arg.keep_count = 1
  /\ unit.ops = 4
  /\ DOMAIN unit.store = {"k2"}
  /\ unit.store["k2"].timestamp = 3

(***************************************************************************)
(* WriteSpec: write_submission at the level of the bytes on the child's    *)
(* stdin, with callers on two threads. The commands that reach it          *)
(* (send_to_codex, interrupt_codex, resolve_codex_permission) hold the     *)
(* SESSION_MANAGER mutex from before the call to after it. A byte is a     *)
(* one-character string, LF the newline, BS the backslash; a text is the   *)
(* sequence of its bytes. unit is                                          *)
(*   pipe     the bytes written to the child's stdin                       *)
(*   open     whether the child still reads its stdin                      *)
(*   holder   the thread that holds SESSION_MANAGER, or "" for none        *)
(*   callers  thread -> [pc, submission, sent]                             *)
(*   written  the submissions whose write_submission returned Ok, in order *)
(*   failed   how many write_submission calls returned Err                 *)
(***************************************************************************)
MaxWrites == 3        \* calls of write_submission in one behaviour

LF == "LF"
BS == "BS"

\* serde_json's string escaping: a control character, a quote or a backslash
\* becomes a backslash and a letter.
RECURSIVE escape(_)
escape(text) ==
  IF text = <<>> THEN <<>>
  ELSE (CASE Head(text) = LF -> << BS, "n" >>
          [] Head(text) = BS -> << BS, BS >>
          [] Head(text) = "q" -> << BS, "q" >>
          [] OTHER -> << Head(text) >>)
       \o escape(Tail(text))

\* A serialization that writes the bytes of the text as they are.
to_string_unescaped(submission) ==
  << "{", "id", ":" >> \o escape(submission.id) \o << ",", "op", ":" >>
  \o escape(submission.op) \o << ",", "text", ":" >> \o submission.text
  \o << "}" >>

\* serde_json::to_string(&submission): compact JSON, one token for each piece
\* of syntax and the escaped bytes of each string.
to_string(submission) ==
  << "{", "id", ":" >> \o escape(submission.id) \o << ",", "op", ":" >>
  \o escape(submission.op) \o << ",", "text", ":" >> \o escape(submission.text)
  \o << "}" >>

\* The submissions of the three methods: a user turn whose text has a
\* newline, a quote and a backslash, an interrupt, an approval.
WriteSubmissions ==
  { [id |-> << "1" >>, op |-> << "U" >>, text |-> << "a", LF, "q", BS >>],
    [id |-> << "2" >>, op |-> << "I" >>, text |-> <<>>],
    [id |-> << "3" >>, op |-> << "E" >>, text |-> << "s" >>] }

Callers == {"t1", "t2"}

IdleCaller == [pc |-> "idle", submission |-> <<>>, sent |-> 0]

InitWrite ==
  /\ Component("write")
  /\ unit = [ pipe |-> <<>>, open |-> TRUE, holder |-> "",
              callers |-> [t \in Callers |-> IdleCaller],
              written |-> <<>>, failed |-> 0, calls |-> 0 ]

\* A command is invoked on a thread: it waits for SESSION_MANAGER.
CallWrite(t, submission) ==
  /\ unit.callers[t].pc = "idle"
  /\ unit.calls < MaxWrites
  /\ unit' = [unit EXCEPT !.callers[t] = [pc |-> "lock", submission |-> << submission >>,
                                          sent |-> 0],
                          !.calls = @ + 1]
  /\ OutsideUnit

\* SESSION_MANAGER.lock().
LockSessions(t) ==
  /\ unit.callers[t].pc = "lock"
  /\ unit.holder = ""
  /\ unit' = [unit EXCEPT !.holder = t, !.callers[t].pc = "payload"]
  /\ OutsideUnit

\* One write of stdin.write_all(payload.as_bytes()): the pipe takes n of the
\* bytes left; write_all goes on until none is left.
WritePayload(t, n) ==
  LET payload == to_string(unit.callers[t].submission[1])
      sent == unit.callers[t].sent
  IN /\ unit.callers[t].pc = "payload"
     /\ unit.open
     /\ n \in 1..(Len(payload) - sent)
     /\ unit' = [unit EXCEPT
                   !.pipe = @ \o SubSeq(payload, sent + 1, sent + n),
                   !.callers[t].sent = sent + n,
                   !.callers[t].pc = IF sent + n = Len(payload) THEN "newline"
                                     ELSE "payload"]
     /\ OutsideUnit

\* stdin.write_all(b"\n") and the return of Ok, the guard dropped.
WriteNewline(t) ==
  /\ unit.callers[t].pc = "newline"
  /\ unit.open
  /\ unit' = [unit EXCEPT !.pipe = Append(@, LF),
                          !.written = Append(@, unit.callers[t].submission[1]),
                          !.holder = "",
                          !.callers[t] = IdleCaller]
  /\ OutsideUnit

\* A write to the stdin of a child that has exited fails: write_submission
\* returns the error, the guard dropped.
WriteFails(t) ==
  /\ unit.callers[t].pc \in {"payload", "newline"}
  /\ ~unit.open
  /\ unit' = [unit EXCEPT !.failed = @ + 1, !.holder = "",
                          !.callers[t] = IdleCaller]
  /\ OutsideUnit

\* The child exits.
WriteChildExits ==
  /\ unit.open
  /\ unit' = [unit EXCEPT !.open = FALSE]
  /\ OutsideUnit

NextWrite ==
  \/ \E t \in Callers, submission \in WriteSubmissions : CallWrite(t, submission)
  \/ \E t \in Callers : LockSessions(t)
  \/ \E t \in Callers, n \in 1..4 : WritePayload(t, n)
  \/ \E t \in Callers : WriteNewline(t)
  \/ \E t \in Callers : WriteFails(t)
  \/ WriteChildExits

WriteSpec == InitWrite /\ [][NextWrite]_vars

\* The lines of the submissions, one after the other.
RECURSIVE LinesOf(_)
LinesOf(submissions) ==
  IF submissions = <<>> THEN <<>>
  ELSE to_string(Head(submissions)) \o << LF >> \o LinesOf(Tail(submissions))

\* The bytes of the pipe after the first n.
After(pipe, n) == SubSeq(pipe, n + 1, Len(pipe))

\* C24: the bytes on the child's stdin are the lines of the submissions
\* written with success, each the JSON of one submission with no newline in
\* it followed by one newline, in the order of their writes, followed by at
\* most the beginning of one more JSON: no bytes of two submissions are mixed.
C24_OneLinePerSubmission ==
  LET done == LinesOf(unit.written)
  IN /\ \A submission \in WriteSubmissions : LF \notin Range(to_string(submission))
     /\ Len(unit.pipe) >= Len(done)
     /\ SubSeq(unit.pipe, 1, Len(done)) = done
     /\ \/ After(unit.pipe, Len(done)) = <<>>
        \/ \E submission \in WriteSubmissions :
             \E n \in 1..Len(to_string(submission)) :
               After(unit.pipe, Len(done)) = SubSeq(to_string(submission), 1, n)
     /\ Cardinality({ i \in 1..Len(unit.pipe) : unit.pipe[i] = LF }) = Len(unit.written)

\* C24's case: the user turn whose text has a newline is written, and a
\* thread is in the middle of its payload while the other waits for the mutex.
C24_Witness ==
  /\ Len(unit.written) = 1
  /\ LF \in Range(unit.written[1].text)
  /\ \E t \in Callers : unit.callers[t].pc = "lock"
  /\ \E t \in Callers : unit.callers[t].pc = "payload" /\ unit.callers[t].sent > 0

(***************************************************************************)
(* TerminalSpec: TerminalManager of terminal.rs under the terminal         *)
(* commands of lib.rs. unit is                                             *)
(*   map          TerminalManager.terminals: id -> [child, took_writer]    *)
(*   running      the shell processes spawned and neither killed nor gone  *)
(*   shells       how many shell processes were spawned                    *)
(*   shell_id     shell process -> the id create_terminal was given        *)
(*   terminal_id  session -> the Option of its terminal id                 *)
(*   last         the last command: [op, arg, result]                      *)
(*   ops          the commands run so far                                  *)
(* The master of a pty hands out its writer once (MasterPty::take_writer): *)
(* took_writer is whether it did. Nothing kills a child but Child::kill.   *)
(***************************************************************************)
MaxTerminalOps == 4     \* terminal commands in one behaviour

PtyIds == {"t1", "t2"}
PtySessions == {"A", "B"}

\* TerminalManager::create_terminal: open a pty (pty: whether the OS lets it),
\* spawn the shell, start the reader, insert the Terminal under id; a Terminal
\* already under id is dropped from the map, its child left as it is.
TerminalManager_create_terminal(u, id, pty) ==
  IF ~pty THEN [u |-> u, result |-> "err_pty"]
  ELSE LET child == u.shells + 1
       IN [ u |-> [u EXCEPT !.shells = child,
                            !.running = @ \cup {child},
                            !.shell_id = Append(@, id),
                            !.map = Insert(@, id, [child |-> child,
                                                   took_writer |-> FALSE])],
            result |-> "ok" ]

\* create_terminal of lib.rs: a known session remembers the id, then the
\* manager creates the terminal.
lib_create_terminal(u, session_id, id, pty) ==
  LET u1 == IF session_id \in DOMAIN u.terminal_id
            THEN [u EXCEPT !.terminal_id[session_id] = << id >>] ELSE u
  IN TerminalManager_create_terminal(u1, id, pty)

\* write_to_terminal: an unknown id is an error; the writer is taken from the
\* master, which fails when it was taken before; the data is written.
write_to_terminal(u, id) ==
  IF id \notin DOMAIN u.map THEN [u |-> u, result |-> "err_not_found"]
  ELSE IF u.map[id].took_writer THEN [u |-> u, result |-> "err_writer"]
  ELSE [u |-> [u EXCEPT !.map[id].took_writer = TRUE], result |-> "ok"]

\* resize_terminal.
resize_terminal(u, id) ==
  IF id \notin DOMAIN u.map THEN [u |-> u, result |-> "err_not_found"]
  ELSE [u |-> u, result |-> "ok"]

\* TerminalManager::close_terminal: remove the Terminal, kill its child, join
\* its reader.
TerminalManager_close_terminal(u, id) ==
  IF id \notin DOMAIN u.map THEN [u |-> u, result |-> "ok"]
  ELSE [ u |-> [u EXCEPT !.map = Remove(@, id),
                         !.running = @ \ {u.map[id].child}],
         result |-> "ok" ]

\* close_terminal of lib.rs: the session forgets the id if it is its
\* terminal's, then the manager closes the terminal.
lib_close_terminal(u, session_id, id) ==
  LET u1 == IF session_id \in DOMAIN u.terminal_id
               /\ u.terminal_id[session_id] = << id >>
            THEN [u EXCEPT !.terminal_id[session_id] = <<>>] ELSE u
  IN TerminalManager_close_terminal(u1, id)

InitTerminal ==
  /\ Component("terminal")
  /\ unit = [ map |-> EmptyMap, running |-> {}, shells |-> 0, shell_id |-> <<>>,
              terminal_id |-> [s \in {"A"} |-> <<>>],
              last |-> [op |-> "new", arg |-> <<>>, result |-> "ok"],
              ops |-> 0 ]

\* A terminal command returned r.
RanTerminal(op, arg, r) ==
  /\ unit.ops < MaxTerminalOps
  /\ unit' = [r.u EXCEPT !.last = [op |-> op, arg |-> arg, result |-> r.result],
                         !.ops = unit.ops + 1]
  /\ OutsideUnit

TerminalCreate(session_id, id, pty) ==
  RanTerminal("create_terminal", [session_id |-> session_id, id |-> id, pty |-> pty],
              lib_create_terminal(unit, session_id, id, pty))

TerminalWrite(id) ==
  RanTerminal("write_to_terminal", [id |-> id], write_to_terminal(unit, id))

TerminalResize(id) ==
  RanTerminal("resize_terminal", [id |-> id], resize_terminal(unit, id))

TerminalClose(session_id, id) ==
  RanTerminal("close_terminal", [session_id |-> session_id, id |-> id],
              lib_close_terminal(unit, session_id, id))

NextTerminal ==
  \/ \E s \in PtySessions, id \in PtyIds, pty \in BOOLEAN : TerminalCreate(s, id, pty)
  \/ \E id \in PtyIds : TerminalWrite(id)
  \/ \E id \in PtyIds : TerminalResize(id)
  \/ \E s \in PtySessions, id \in PtyIds : TerminalClose(s, id)

TerminalSpec == InitTerminal /\ [][NextTerminal]_vars

\* C25: a write succeeds exactly when the id is in the terminal map, so every
\* write after a create succeeds until the close; a write or resize of an id
\* not in the map returns the not-found error; after a close the id is not in
\* the map, and a close of an id not in the map succeeds and changes nothing.
C25_WriteIffInMap ==
  [][ LET id == unit'.last.arg.id
          result == unit'.last.result
      IN /\ unit'.last.op = "write_to_terminal" =>
              /\ (result = "ok") <=> (id \in DOMAIN unit.map)
              /\ id \notin DOMAIN unit.map => result = "err_not_found"
         /\ unit'.last.op = "resize_terminal" =>
              (result = "err_not_found") <=> (id \notin DOMAIN unit.map)
         /\ unit'.last.op = "close_terminal" =>
              /\ id \notin DOMAIN unit'.map
              /\ id \notin DOMAIN unit.map =>
                   (result = "ok" /\ unit'.map = unit.map
                    /\ unit'.running = unit.running) ]_vars

\* C26: every shell process that create_terminal spawned and that was not
\* killed is the child of the terminal stored in the map under the id it was
\* created for, so that no id has two ptys.
C26_OnePtyPerId ==
  \A child \in unit.running :
    /\ unit.shell_id[child] \in DOMAIN unit.map
    /\ unit.map[unit.shell_id[child]].child = child

(***************************************************************************)
(* CommandSpec: create_command_with_env of claude_binary.rs. A string is   *)
(* the sequence of its characters. unit is                                 *)
(*   env      the parent's environment: key -> value                       *)
(*   program  the program the command is made for                          *)
(*   cmd      the environment set on the Command, cmd.env: key -> value        *)
(*   made     whether the command was made                                 *)
(***************************************************************************)
Str(a, b) == a \o << ":" >> \o b      \* format!("{}:{}", a, b)

\* str::contains: sub is a run of consecutive characters of s.
contains(s, sub) ==
  \E i \in 0 .. Len(s) - Len(sub) :
    \A j \in 1 .. Len(sub) : s[i + j] = sub[j]

\* Path::parent of a program: what precedes the last "/", "/" itself for a
\* program in the root, the empty string for a bare name.
LastSlash(program) ==
  LET at == { i \in 1 .. Len(program) : program[i] = "/" }
  IN IF at = {} THEN 0 ELSE CHOOSE i \in at : \A j \in at : j <= i

parent(program) ==
  IF LastSlash(program) = 0 THEN <<>>
  ELSE IF LastSlash(program) = 1 THEN << "/" >>
  ELSE SubSeq(program, 1, LastSlash(program) - 1)

\* The keys the loop over std::env::vars() sets on the command.
LcKeys == {"LC_CTYPE"}                  \* the keys that start with "LC_"
Inherited ==
  {"PATH", "HOME", "USER", "SHELL", "LANG", "LC_ALL", "NODE_PATH", "NVM_DIR",
   "NVM_BIN", "HOMEBREW_PREFIX", "HOMEBREW_CELLAR", "HTTP_PROXY", "HTTPS_PROXY",
   "NO_PROXY", "ALL_PROXY"} \cup LcKeys

\* std::env::var("PATH").unwrap_or_default()
var_PATH(environ) == IF "PATH" \in DOMAIN environ THEN environ["PATH"] ELSE <<>>

\* create_command_with_env: the environment set on the command.
create_command_with_env(environ, program) ==
  LET inherit == [key \in DOMAIN environ \cap Inherited |-> environ[key]]
  IN IF ~contains(var_PATH(environ), parent(program))
     THEN Insert(inherit, "PATH", Str(parent(program), var_PATH(environ)))
     ELSE inherit

\* Directories, PATH values and programs of the check.
BinDirs == { << "/", "a" >>, << "/", "b" >>, << "/", "a", "/", "b" >> }
PathValues == BinDirs \cup { Str(d, e) : d, e \in BinDirs }
Programs == { d \o << "/", "c" >> : d \in BinDirs } \cup { << "c" >>, << "/", "c" >> }
EnvKeys == {"PATH", "HOME", "LC_CTYPE", "API_KEY"}
Environments ==
  UNION { { [key \in keys |-> IF key = "PATH" THEN path ELSE << "v" >>]
            : path \in PathValues } : keys \in SUBSET EnvKeys }

InitCommand ==
  /\ Component("command")
  /\ \E environ \in Environments, program \in Programs :
       unit = [env |-> environ, program |-> program, cmd |-> EmptyMap, made |-> FALSE]

CreateCommandWithEnv ==
  /\ ~unit.made
  /\ unit' = [unit EXCEPT !.cmd = create_command_with_env(unit.env, unit.program),
                          !.made = TRUE]
  /\ OutsideUnit

NextCommand == CreateCommandWithEnv

CommandSpec == InitCommand /\ [][NextCommand]_vars

\* The entries of a PATH value: the runs between its ":".
RECURSIVE Entries(_)
Entries(path) ==
  LET at == { i \in 1 .. Len(path) : path[i] = ":" }
  IN IF at = {} THEN { path }
     ELSE LET i == CHOOSE k \in at : \A j \in at : k <= j
          IN { SubSeq(path, 1, i - 1) } \cup Entries(SubSeq(path, i + 1, Len(path)))

\* C27: for a program in a directory, the command's PATH is the directory,
\* ":" and the parent's PATH exactly when the directory is not an entry of
\* the parent's PATH, and is the inherited PATH (or none) when it is an entry;
\* no key outside the allow-list is set on the command.
C27_PathPrepended ==
  (unit.made /\ parent(unit.program) # <<>>) =>
    LET dir == parent(unit.program)
        path == var_PATH(unit.env)
        entry == "PATH" \in DOMAIN unit.env /\ dir \in Entries(path)
    IN /\ ~entry => /\ "PATH" \in DOMAIN unit.cmd
                    /\ unit.cmd["PATH"] = Str(dir, path)
       /\ entry => unit.cmd["PATH"] = path
       /\ DOMAIN unit.cmd \subseteq Inherited

(***************************************************************************)
(* SpawnSpec: spawn_codex_process under every answer of the OS. unit is    *)
(*   os        how the OS answered the spawns of the last call             *)
(*   result    what the last call returned: [ok, attempts, err]            *)
(*   calls     the calls so far                                            *)
(*   attempts  the spawns attempted so far, over all calls                 *)
(***************************************************************************)
MaxSpawnCalls == 3      \* calls of spawn_codex_process in one behaviour

SpawnErrors == {"ok", "notfound", "denied", "other"}
OsAnswers == [primary : SpawnErrors, script : BOOLEAN, node : SpawnErrors]

InitSpawn ==
  /\ Component("spawn")
  /\ unit = [os |-> SpawnOk, result |-> [ok |-> FALSE, attempts |-> 0, err |-> ""],
             calls |-> 0, attempts |-> 0]

SpawnCodexProcess(os) ==
  /\ unit.calls < MaxSpawnCalls
  /\ unit' = [os |-> os, result |-> spawn_codex_process(os),
              calls |-> unit.calls + 1,
              attempts |-> unit.attempts + spawn_codex_process(os).attempts]
  /\ OutsideUnit

NextSpawn == \E os \in OsAnswers : SpawnCodexProcess(os)

SpawnSpec == InitSpawn /\ [][NextSpawn]_vars

\* C28: a call of spawn_codex_process attempts one spawn or two; it attempts
\* the second, the node runner, only after a not-found of the primary; any
\* other error of the primary is returned after that one attempt; a failed
\* node runner is returned as an error after the two attempts.
C28_AtMostOneFallback ==
  [][ unit'.calls = unit.calls + 1 =>
        LET os == unit'.os
            attempts == unit'.attempts - unit.attempts
            result == unit'.result
        IN /\ attempts \in {1, 2}
           /\ attempts = result.attempts
           /\ attempts = 2 => os.primary = "notfound"
           /\ os.primary \notin {"ok", "notfound"} =>
                (attempts = 1 /\ ~result.ok /\ result.err = "err_spawn")
           /\ (os.primary = "notfound" /\ os.script /\ os.node # "ok") =>
                (attempts = 2 /\ ~result.ok /\ result.err = "err_spawn_node") ]_vars

\* The node runner was tried after a not-found of the primary and failed too:
\* two attempts and an error; the call before it made one attempt.
C28_Witness ==
  /\ unit.calls = 2
  /\ unit.attempts = 3
  /\ unit.os.primary = "notfound" /\ unit.os.script /\ unit.os.node = "notfound"
  /\ unit.result = [ok |-> FALSE, attempts |-> 2, err |-> "err_spawn_node"]

(***************************************************************************)
(* ClaudeSpec: the stdout reader thread of ClaudeBridge::start. A line is  *)
(* the sequence of its characters; "?" is a byte that is no UTF-8, which   *)
(* makes reader.lines() yield an Err for the line. unit is                 *)
(*   read       the lines read from the child's stdout, oldest first       *)
(*   last_line  the Option of the last line emitted                        *)
(*   emitted    the payloads of the "claude:stream" events, oldest first   *)
(***************************************************************************)
MaxClaudeLines == 5     \* lines one child writes to its stdout

is_whitespace(c) == c \in {" ", "\t"}

\* str::trim
RECURSIVE trim_line(_)
trim_line(l) ==
  IF l = <<>> THEN l
  ELSE IF is_whitespace(Head(l)) THEN trim_line(Tail(l))
  ELSE IF is_whitespace(l[Len(l)]) THEN trim_line(SubSeq(l, 1, Len(l) - 1))
  ELSE l

\* Whether reader.lines() yields Ok for the line.
is_ok(l) == \A i \in 1 .. Len(l) : l[i] # "?"

\* A reader whose comparison is reset by a blank line.
stdout_line_blank_resets(r, l) ==
  IF ~is_ok(l) THEN r
  ELSE IF trim_line(l) = <<>> THEN [r EXCEPT !.last_line = <<>>]
  ELSE IF r.last_line = << trim_line(l) >> THEN r
  ELSE [r EXCEPT !.emitted = Append(@, trim_line(l)), !.last_line = << trim_line(l) >>]

\* One turn of the loop over reader.lines().
stdout_line(r, l) ==
  IF ~is_ok(l) THEN r
  ELSE IF trim_line(l) = <<>> THEN r
  ELSE IF r.last_line = << trim_line(l) >> THEN r
  ELSE [r EXCEPT !.emitted = Append(@, trim_line(l)), !.last_line = << trim_line(l) >>]

ClaudeLines ==
  { <<>>, << " " >>, << "a" >>, << " ", "a" >>, << "a", "\t" >>, << "b" >>,
    << "a", " ", "b" >>, << "?" >> }

InitClaude ==
  /\ Component("claude")
  /\ unit = [read |-> <<>>, last_line |-> <<>>, emitted |-> <<>>]

ClaudeStdoutLine(l) ==
  /\ Len(unit.read) < MaxClaudeLines
  /\ unit' = [stdout_line(unit, l) EXCEPT !.read = Append(unit.read, l)]
  /\ OutsideUnit

NextClaude == \E l \in ClaudeLines : ClaudeStdoutLine(l)

ClaudeSpec == InitClaude /\ [][NextClaude]_vars

\* The lines that are read and are not blank, trimmed, in order.
RECURSIVE NonBlank(_)
NonBlank(read) ==
  IF read = <<>> THEN <<>>
  ELSE IF is_ok(Head(read)) /\ trim_line(Head(read)) # <<>>
    THEN << trim_line(Head(read)) >> \o NonBlank(Tail(read))
  ELSE NonBlank(Tail(read))

\* f without every element that equals the one before it.
RECURSIVE Collapse(_)
Collapse(f) ==
  IF Len(f) <= 1 THEN f
  ELSE IF f[Len(f)] = f[Len(f) - 1] THEN Collapse(SubSeq(f, 1, Len(f) - 1))
  ELSE Append(Collapse(SubSeq(f, 1, Len(f) - 1)), f[Len(f)])

\* C29: the events are the non-blank lines, trimmed and in order, without
\* every line that equals the non-blank line before it, blank lines in
\* between or not: no two consecutive events are equal, and a line equal to
\* an earlier event that is not the last one is emitted again.
C29_ConsecutiveDuplicates ==
  /\ unit.emitted = Collapse(NonBlank(unit.read))
  /\ \A i \in 1 .. Len(unit.emitted) - 1 : unit.emitted[i] # unit.emitted[i + 1]
  /\ unit.last_line =
       (IF unit.emitted = <<>> THEN <<>> ELSE << unit.emitted[Len(unit.emitted)] >>)

\* " a", a blank line and "a\t" gave one event, and the "a" after the "b" was
\* emitted again.
C29_Witness ==
  /\ unit.read = << << " ", "a" >>, << " " >>, << "a", "\t" >>, << "b" >>, << "a" >> >>
  /\ unit.emitted = << << "a" >>, << "b" >>, << "a" >> >>

(***************************************************************************)
(* The errors of resolve_permission, checked under Spec.                   *)
(***************************************************************************)
\* C30 as stated: whenever resolve_permission returns an error, the
\* pending-permission map is the same as before the call.
C30_ErrorLeavesMap ==
  [][ (last'.op = "resolve_permission" /\ last'.result # "ok") =>
        bridge'.pending_permissions = bridge.pending_permissions ]_vars

\* C30, amended: a resolve_permission that returns an error writes nothing.
\* The error is the unknown-id error exactly when the id is not pending, and
\* the map is then the same as before the call; when the approval could not
\* be written to the child the entry of the id is removed all the same, the
\* other entries staying as they were.
C30_ErrorRemovesPending ==
  [][ (last'.op = "resolve_permission" /\ last'.result # "ok") =>
        LET p == last'.arg.request_id
        IN /\ last'.wrote = <<>>
           /\ (last'.result = "err_unknown_permission")
                <=> (p \notin DOMAIN bridge.pending_permissions)
           /\ p \notin DOMAIN bridge.pending_permissions =>
                bridge'.pending_permissions = bridge.pending_permissions
           /\ p \in DOMAIN bridge.pending_permissions =>
                bridge'.pending_permissions = Remove(bridge.pending_permissions, p) ]_vars

\* C30's case: the approval of a registered id could not be written, and the
\* id is not pending any more.
C30_Witness ==
  /\ last.op = "resolve_permission"
  /\ last.result \notin {"ok", "err_unknown_permission"}
  /\ Registering(last.arg.request_id) # {}
  /\ last.arg.request_id \notin DOMAIN bridge.pending_permissions

(***************************************************************************)
(* The notification ids of one run, checked under Spec.                    *)
(***************************************************************************)
\* C31: no two thinking notifications emitted since the last start carry the
\* same notification id "<submission id>::<sequence>".
C31_UniqueThinkingIds ==
  LET notes == Notes(hist.log)
  IN \A i, j \in 1 .. Len(notes) :
       ( /\ notes[i].type = "thinking" /\ notes[j].type = "thinking"
         /\ notes[i].id = notes[j].id ) => i = j

(***************************************************************************)
(* The errors of send_message, checked under Spec.                         *)
(***************************************************************************)
\* C32 as stated: a send_message that returns an error leaves the stored
\* session model and the reasoning-buffer map as they were before the call.
C32_ErrorLeavesSharedState ==
  [][ (last'.op = "send_message" /\ last'.result # "ok") =>
        /\ bridge'.session_model = bridge.session_model
        /\ bridge'.reasoning_buffers = bridge.reasoning_buffers ]_vars

\* C32, amended: a send_message that returns an error writes nothing. With no
\* project directory set it changes nothing. When the submission could not be
\* written (no stdin, or a failed write) the model override, if one was given,
\* is stored as the session model, and the empty reasoning entry of the fresh
\* submission id is registered all the same; the rest of the bridge is as it
\* was.
C32_ErrorKeepsRegistration ==
  [][ (last'.op = "send_message" /\ last'.result # "ok") =>
        /\ last'.wrote = <<>>
        /\ (last'.result = "err_no_project_dir") <=> (bridge.project_dir = "")
        /\ bridge.project_dir = "" => bridge' = bridge
        /\ bridge.project_dir # "" =>
             /\ Uuid(env.uuid) \notin DOMAIN bridge.reasoning_buffers
             /\ bridge' =
                  [bridge EXCEPT
                     !.session_model = IF last'.arg.model # NoModel
                                       THEN last'.arg.model ELSE @,
                     !.reasoning_buffers =
                        Insert(@, Uuid(env.uuid), ReasoningEntry_default)] ]_vars

\* C32's case: a send_message with a model override that could not be written;
\* the override is the session model and was not before.
C32_Witness ==
  /\ last.op = "send_message"
  /\ last.result \notin {"ok", "err_no_project_dir"}
  /\ last.arg.model # NoModel
  /\ bridge.session_model = last.arg.model
  /\ Len(hist.models) >= 2
  /\ hist.models[Len(hist.models) - 1] # last.arg.model

(***************************************************************************)
(* The life of an edit id, checked under Spec.                             *)
(***************************************************************************)
EditEnds == {"edit:applied", "edit:rejected"}

\* The places in notes of the notifications of the types in ts for the id.
PlacesOf(notes, ts, id) ==
  { i \in 1 .. Len(notes) : notes[i].type \in ts /\ notes[i].id = id }

\* C33: an edit id that was proposed is applied or rejected by at most one
\* notification, after its proposal; the notifications that apply or reject
\* edits are emitted for a patch-apply-end only, one for each edit id
\* remembered under its call id and none when there is none; a
\* resolve_permission, a denial too, emits nothing and leaves the pending-edit
\* map as it was.
C33_EditFinalizedOnce ==
  /\ [](LET notes == Notes(hist.log)
        IN \A i \in 1 .. Len(notes) :
             notes[i].type \in EditEnds =>
               /\ PlacesOf(notes, EditEnds, notes[i].id) = {i}
               /\ \E j \in PlacesOf(notes, {"edit:proposed"}, notes[i].id) : j < i)
  /\ [][ /\ last'.op = "resolve_permission" =>
             /\ last'.trace = <<>>
             /\ bridge'.pending_edits = bridge.pending_edits
         /\ (last'.op = "reader" /\ last'.arg.raw = "event") =>
             LET out == last'.trace[1].out
                 msg == last'.arg.msg
                 ends == { k \in 1 .. Len(out) : out[k].type \in EditEnds }
             IN /\ ends # {} => msg.kind = "PatchApplyEnd"
                /\ msg.kind = "PatchApplyEnd" =>
                     /\ msg.call_id \notin DOMAIN bridge'.pending_edits
                     /\ msg.call_id \notin DOMAIN bridge.pending_edits => out = <<>>
                     /\ msg.call_id \in DOMAIN bridge.pending_edits =>
                          /\ Len(out) = Len(bridge.pending_edits[msg.call_id])
                          /\ \A k \in 1 .. Len(out) :
                               /\ out[k].id = bridge.pending_edits[msg.call_id][k]
                               /\ out[k].type = IF msg.success THEN "edit:applied"
                                                 ELSE "edit:rejected" ]_vars

\* C33's case: a patch request was resolved, its two edits were rejected by
\* the patch-apply-end of its call, and a second patch-apply-end of the call
\* emitted nothing.
C33_Witness ==
  /\ Len(hist.log) = 3
  /\ IsEvent(hist.log[1], "ApplyPatchApprovalRequest")
  /\ hist.log[1].line.msg.call_id = "c1"
  /\ Len(hist.log[1].line.msg.changes) = 2
  /\ IsPatchEnd(2, "c1") /\ Len(hist.log[2].out) = 2
  /\ hist.log[2].out[1].type = "edit:rejected"
  /\ IsPatchEnd(3, "c1") /\ hist.log[3].out = <<>>
  /\ hist.log[1].out[3].id \in hist.resolved

(***************************************************************************)
(* The bridges the session entries hold, checked under RegistrySpec.       *)
(***************************************************************************)
\* C34: a bridge held by a session entry has a child process handle, a stdin
\* handle and both reader threads, and its project directory is the
\* directory stored in the entry.
C34_HeldBridgeRunning ==
  \A s \in DOMAIN sessions :
    sessions[s].codex # <<>> =>
      /\ sessions[s].codex[1].process # NoChild
      /\ sessions[s].codex[1].stdin # NoChild
      /\ sessions[s].codex[1].stdout_thread
      /\ sessions[s].codex[1].stderr_thread
      /\ sessions[s].codex[1].project_dir = sessions[s].project_dir

\* C34's case: two sessions on different directories hold a bridge each, the
\* one of the session just restarted being the third child spawned.
C34_Witness ==
  /\ last.op = "restart_codex" /\ last.result = "ok"
  /\ DOMAIN sessions = {"A", "B"}
  /\ sessions["A"].codex # <<>> /\ sessions["B"].codex # <<>>
  /\ sessions["A"].project_dir # sessions["B"].project_dir
  /\ sessions[last.arg.session_id].codex[1].process = 3

(***************************************************************************)
(* The order of the registry mutexes, checked under LockSpec.              *)
(***************************************************************************)
\* The mutexes the reader threads joined by a blocking operation take: the
\* pty reader of a terminal takes none, the stdout reader of a bridge takes
\* those of the bridge's SharedState in handle_proto_line, its stderr reader
\* none.
ReaderLocks(op) ==
  IF op = "kill_wait_join"
  THEN {"session_model", "reasoning_buffers", "pending_permissions", "pending_edits"}
  ELSE {}

Joins == {"join", "kill_wait_join"}

\* C35: a thread that takes a registry mutex while it holds another holds the
\* session map only and takes the terminal map, so that the model-handler
\* mutex is held alone; a thread that joins a reader thread holds no mutex
\* that reader takes; and no two threads wait for each other.
C35_LockOrder ==
  /\ [](\A t \in Threads :
          /\ threads[t].blocked \in Joins =>
               threads[t].held \cap ReaderLocks(threads[t].blocked) = {}
          /\ \A u \in Threads : ~(WaitsFor(t, u) /\ WaitsFor(u, t)))
  /\ [][ \A t \in Threads :
           (threads'[t].held # threads[t].held /\ threads[t].held # {}
            /\ threads[t].held \subseteq threads'[t].held) =>
             /\ threads[t].held = {"SESSION_MANAGER"}
             /\ threads'[t].held = {"SESSION_MANAGER", "terminals"} ]_vars

\* C35's case: the main thread joins a pty reader with the session map and the
\* terminal map held, and the async thread waits for the session map.
C35_Witness ==
  /\ threads["main"].held = {"SESSION_MANAGER", "terminals"}
  /\ threads["main"].blocked = "join"
  /\ WaitsFor("async", "main")

(***************************************************************************)
(* The terminal id a session remembers, checked under TerminalSpec.        *)
(***************************************************************************)
\* C36: whenever a session's terminal id is set, a terminal is stored under
\* that id in the terminal map.
C36_TerminalIdInMap ==
  \A s \in DOMAIN unit.terminal_id :
    unit.terminal_id[s] # <<>> => unit.terminal_id[s][1] \in DOMAIN unit.map

(***************************************************************************)
(* HandlerSpec: the model handlers of lib.rs and the directory their child *)
(* runs in. unit is                                                        *)
(*   dirs      SESSION_MANAGER: session id -> the project_dir stored       *)
(*   handlers  MODEL_HANDLERS: model -> the Option of the child, a child   *)
(*             being the directory it was spawned in                       *)
(*   last      the last command: [op, session_id, result, cwd], cwd the    *)
(*             Option of the directory of the child the input was sent to  *)
(*   ops       the commands run so far                                     *)
(***************************************************************************)
MaxHandlerOps == 4      \* commands on the model handlers in one behaviour

\* NodeModelHandler::start: nothing when a child is held; else the child is
\* spawned in project_dir (spawn: whether the OS lets it).
NodeModelHandler_start(child, project_dir, spawn) ==
  IF child # <<>> THEN [child |-> child, result |-> "ok"]
  ELSE IF ~spawn THEN [child |-> child, result |-> "err_spawn"]
  ELSE [child |-> << project_dir >>, result |-> "ok"]

\* NodeModelHandler::stop
NodeModelHandler_stop(child) == <<>>

\* send_to_model: the model in lower case, the session's stored directory,
\* the handler started and the input sent to its child.
model_send(u, session_id, model, spawn) ==
  LET name == IF model = "Codex" THEN "codex" ELSE model
      failed(result) ==
        [u EXCEPT !.last = [op |-> "send_to_model", session_id |-> session_id,
                            result |-> result, cwd |-> <<>>]]
      started(st) ==
        IF st.result # "ok" THEN failed(st.result)
        ELSE [u EXCEPT !.handlers[name] = st.child,
                       !.last = [op |-> "send_to_model", session_id |-> session_id,
                                 result |-> "ok", cwd |-> st.child]]
  IN IF session_id \notin DOMAIN u.dirs THEN failed("err_not_initialized")
     ELSE IF u.dirs[session_id] = "" THEN failed("err_no_project_dir")
     ELSE IF name \notin DOMAIN u.handlers THEN failed("err_unknown_model")
     ELSE started(NodeModelHandler_start(u.handlers[name], u.dirs[session_id], spawn))

\* stop_model
model_stop(u, model) ==
  LET name == IF model = "Codex" THEN "codex" ELSE model
  IN [u EXCEPT !.handlers = [h \in DOMAIN @ |->
                               IF h = name THEN NodeModelHandler_stop(@[h]) ELSE @[h]],
               !.last = [op |-> "stop_model", session_id |-> "", result |-> "ok",
                         cwd |-> <<>>]]

\* stop_codex, as far as the handlers go: every handler is stopped.
model_stop_all(u, session_id) ==
  [u EXCEPT !.handlers = [h \in DOMAIN @ |-> NodeModelHandler_stop(@[h])],
            !.last = [op |-> "stop_codex", session_id |-> session_id, result |-> "ok",
                      cwd |-> <<>>]]

\* start_codex, as far as the stored directory goes.
model_session_dir(u, session_id, project_dir) ==
  [u EXCEPT !.dirs = Insert(@, session_id, resolved_str(project_dir)),
            !.last = [op |-> "start_codex", session_id |-> session_id, result |-> "ok",
                      cwd |-> <<>>]]

ModelNames == {"codex", "Codex", "other"}

InitHandler ==
  /\ Component("handler")
  /\ unit = [ dirs |-> EmptyMap, handlers |-> [h \in {"codex"} |-> <<>>],
              last |-> [op |-> "new", session_id |-> "", result |-> "ok", cwd |-> <<>>],
              ops |-> 0 ]

RanHandler(u) ==
  /\ unit.ops < MaxHandlerOps
  /\ unit' = [u EXCEPT !.ops = unit.ops + 1]
  /\ OutsideUnit

HandlerStartCodex(s, dir) == RanHandler(model_session_dir(unit, s, dir))
HandlerSendToModel(s, model, spawn) == RanHandler(model_send(unit, s, model, spawn))
HandlerStopModel(model) == RanHandler(model_stop(unit, model))
HandlerStopCodex(s) == RanHandler(model_stop_all(unit, s))

NextHandler ==
  \/ \E s \in SessionIds, dir \in CommandDirs : HandlerStartCodex(s, dir)
  \/ \E s \in SessionIds, model \in ModelNames, spawn \in BOOLEAN :
       HandlerSendToModel(s, model, spawn)
  \/ \E model \in ModelNames : HandlerStopModel(model)
  \/ \E s \in SessionIds : HandlerStopCodex(s)

HandlerSpec == InitHandler /\ [][NextHandler]_vars

\* C37: a send_to_model that succeeds has sent the input to a handler child
\* whose working directory is the directory stored for the session.
C37_HandlerInSessionDir ==
  (unit.last.op = "send_to_model" /\ unit.last.result = "ok") =>
    unit.last.cwd = << unit.dirs[unit.last.session_id] >>

(***************************************************************************)
(* LspSpec: LspManager::send_request of terminal.rs, a turn of its header  *)
(* loop being a step, and the language servers. unit is                    *)
(*   servers  LspManager.servers: language -> [out, closed, exited], out   *)
(*            being the lines the server wrote that are not read yet,      *)
(*            closed whether it closed its stdout, exited whether it is    *)
(*            gone (its stdin closed too)                                  *)
(*   call     the Option of the call in progress: [lang, pc, header,       *)
(*            turns], pc "header" in the header loop and "body" at         *)
(*            read_exact, turns the turns of the loop modulo 2             *)
(*   held     whether the servers mutex is held                            *)
(*   last     what the last call returned: [lang, result]                  *)
(*   calls    the calls so far                                             *)
(*   written  the lines the servers wrote so far                           *)
(* A line is "CL" (Content-Length: n), "X" (another header line), "BLANK"  *)
(* (the empty line that ends the header), "PART" (the unfinished line      *)
(* before the end of the stream) or "BODY" (the n bytes of the reply).     *)
(***************************************************************************)
MaxLspCalls == 2        \* calls of send_request in one behaviour
MaxLspLines == 3        \* lines the servers write in one behaviour

Languages == {"rs", "py"}
LspLines == {"CL", "X", "BLANK", "PART", "BODY"}

\* send_request returns: the guard of the servers mutex is dropped.
LspReturn(u, lang, result) ==
  [u EXCEPT !.call = <<>>, !.held = FALSE, !.last = [lang |-> lang, result |-> result]]

\* send_request up to the header loop: lock, spawn the server if the language
\* has none (spawn: whether the OS lets it), write the request.
send_request(u, lang, spawn) ==
  LET written(u1) ==
        IF u1.servers[lang].exited THEN LspReturn(u1, lang, "err_write")
        ELSE [u1 EXCEPT !.held = TRUE,
                        !.call = << [lang |-> lang, pc |-> "header",
                                     header |-> <<>>, turns |-> 0] >>]
  IN IF lang \notin DOMAIN u.servers
       THEN IF ~spawn THEN LspReturn(u, lang, "err_spawn")
            ELSE written([u EXCEPT !.servers =
                            Insert(@, lang, [out |-> <<>>, closed |-> FALSE,
                                             exited |-> FALSE])])
     ELSE written(u)

\* One turn of the header loop: read_line gives the next line, or the empty
\* string at the end of the stream; the loop ends at the empty line of the
\* protocol only, and then the Content-Length is looked for.
read_header_line(u) ==
  LET call == u.call[1]
      server == u.servers[call.lang]
  IN IF server.out = <<>>
       THEN [u EXCEPT !.call[1].turns = (@ + 1) % 2]
     ELSE IF Head(server.out) = "BLANK"
       THEN IF \E i \in 1 .. Len(call.header) : call.header[i] = "CL"
              THEN [u EXCEPT !.servers[call.lang].out = Tail(@),
                             !.call[1].pc = "body"]
            ELSE LspReturn([u EXCEPT !.servers[call.lang].out = Tail(@)],
                           call.lang, "err_missing_content_length")
     ELSE [u EXCEPT !.servers[call.lang].out = Tail(@),
                    !.call[1].header = Append(@, Head(server.out)),
                    !.call[1].turns = (@ + 1) % 2]

\* read_exact of the body.
read_body(u) ==
  LET call == u.call[1]
  IN IF u.servers[call.lang].out = <<>> THEN LspReturn(u, call.lang, "err_body")
     ELSE LspReturn([u EXCEPT !.servers[call.lang].out = Tail(@)], call.lang, "ok")

InitLsp ==
  /\ Component("lsp")
  /\ unit = [ servers |-> EmptyMap, call |-> <<>>, held |-> FALSE,
              last |-> [lang |-> "", result |-> "ok"], calls |-> 0, written |-> 0 ]

LspSendRequest(lang, spawn) ==
  /\ unit.call = <<>> /\ ~unit.held
  /\ unit.calls < MaxLspCalls
  /\ unit' = [send_request(unit, lang, spawn) EXCEPT !.calls = unit.calls + 1]
  /\ OutsideUnit

\* read_line returns when a line is there or the stream is closed.
LspReadLine ==
  /\ unit.call # <<>> /\ unit.call[1].pc = "header"
  /\ (unit.servers[unit.call[1].lang].out # <<>>
      \/ unit.servers[unit.call[1].lang].closed)
  /\ unit' = read_header_line(unit)
  /\ OutsideUnit

LspReadBody ==
  /\ unit.call # <<>> /\ unit.call[1].pc = "body"
  /\ (unit.servers[unit.call[1].lang].out # <<>>
      \/ unit.servers[unit.call[1].lang].closed)
  /\ unit' = read_body(unit)
  /\ OutsideUnit

LspServerWrites(lang, line) ==
  /\ lang \in DOMAIN unit.servers
  /\ ~unit.servers[lang].closed
  /\ unit.written < MaxLspLines
  /\ unit' = [unit EXCEPT !.servers[lang].out = Append(@, line),
                          !.written = @ + 1]
  /\ OutsideUnit

LspServerCloses(lang, exits) ==
  /\ lang \in DOMAIN unit.servers
  /\ ~unit.servers[lang].exited
  /\ exits \/ ~unit.servers[lang].closed
  /\ unit' = [unit EXCEPT !.servers[lang].closed = TRUE,
                          !.servers[lang].exited = exits]
  /\ OutsideUnit

NextLsp ==
  \/ \E lang \in Languages, spawn \in BOOLEAN : LspSendRequest(lang, spawn)
  \/ LspReadLine
  \/ LspReadBody
  \/ \E lang \in Languages, line \in LspLines : LspServerWrites(lang, line)
  \/ \E lang \in Languages, exits \in BOOLEAN : LspServerCloses(lang, exits)

LspSpec == InitLsp /\ [][NextLsp]_vars

\* The thread of the call runs: a read that can return does.
LspFairSpec == LspSpec /\ WF_vars(LspReadLine) /\ WF_vars(LspReadBody)

\* C38: a call whose server has closed its stdout returns, the servers mutex
\* released.
C38_SendRequestReturns ==
  (unit.call # <<>> /\ unit.servers[unit.call[1].lang].closed)
    ~> (unit.call = <<>> /\ ~unit.held)

(***************************************************************************)
(* RestoreSpec: the three restore commands of checkpoint.rs on checkpoints *)
(* whose paths leave the project root. unit is as in CheckpointSpec; a     *)
(* file of project is named by the target path the command wrote to.       *)
(***************************************************************************)
\* The loop of restore_checkpoint_files over the files asked for: a path of
\* the mapping is restored, a path that is not in it ends the loop with an
\* error. r is [project, result].
RECURSIVE RestoreFiles(_, _, _, _)
RestoreFiles(r, checkpoint, current, files) ==
  IF files = <<>> THEN r
  ELSE IF Head(files) \notin DOMAIN checkpoint.mapping
    THEN [r EXCEPT !.result = "err_file_not_found"]
  ELSE LET snapshot == checkpoint.files[checkpoint.mapping[Head(files)]]
           content == IF current THEN snapshot.current_content
                      ELSE snapshot.original_content
       IN RestoreFiles([r EXCEPT !.project =
                          Insert(@, resolve_target_path(ProjectBase, Head(files)),
                                 content)],
                       checkpoint, current, Tail(files))

\* restore_checkpoint_files.
restore_checkpoint_files(project, store, checkpoint_id, files, mode) ==
  IF checkpoint_id \notin DOMAIN store
    THEN [project |-> project, result |-> "err_not_found"]
  ELSE RestoreFiles([project |-> project, result |-> "ok"], store[checkpoint_id],
                    mode = "current", files)

\* The checkpoints saved and the files asked for.
RestoreIds == {"k1", "k2"}

RestoreLists ==
  { << Snapshot(<< "a" >>, 1), Snapshot(<< "d", "b" >>, 2) >>,
    << Snapshot(<< "..", "e" >>, 1) >>,
    << Snapshot(<< "/", "p", "a" >>, 1), Snapshot(<< "/", "x", "a" >>, 2) >>,
    << Snapshot(<< "/", "p", "..", "e" >>, 1) >> }

FilesAsked ==
  { << << "a" >> >>, << << "a" >>, << "d", "b" >> >>, << << "a" >>, << "z" >> >>,
    << << "z" >>, << "a" >> >>, << << "..", "e" >> >> }

InitRestore ==
  /\ Component("restore")
  /\ unit = [ project |-> EmptyMap, store |-> EmptyMap,
              last |-> [op |-> "new", arg |-> <<>>, result |-> "ok", out |-> <<>>],
              ops |-> 0 ]

RestoreSave(checkpoint_id, files, now) ==
  /\ now \in ClockReadings
  /\ Ran("save_checkpoint_files", [checkpoint_id |-> checkpoint_id, files |-> files],
         "ok", <<>>, unit.project,
         save_checkpoint_files(unit.store, checkpoint_id, files, now))

RestoreCheckpointFiles(checkpoint_id, files, mode) ==
  LET returned(r) ==
        Ran("restore_checkpoint_files",
            [checkpoint_id |-> checkpoint_id, files |-> files, mode |-> mode],
            r.result, <<>>, r.project, unit.store)
  IN returned(restore_checkpoint_files(unit.project, unit.store, checkpoint_id,
                                       files, mode))

NextRestore ==
  \/ \E c \in RestoreIds, files \in RestoreLists, now \in 1..MaxTime :
       RestoreSave(c, files, now)
  \/ \E c \in RestoreIds : RestoreCheckpoint(c)
  \/ \E c \in RestoreIds, mode \in Modes : RestoreCheckpointWithMode(c, mode)
  \/ \E c \in RestoreIds, files \in FilesAsked, mode \in Modes :
       RestoreCheckpointFiles(c, files, mode)

RestoreSpec == InitRestore /\ [][NextRestore]_vars

\* The file a target path names: each ".." leaves the directory before it.
RECURSIVE Canon(_, _)
Canon(done, rest) ==
  IF rest = <<>> THEN done
  ELSE IF Head(rest) = ".."
    THEN Canon(IF Len(done) > 1 THEN SubSeq(done, 1, Len(done) - 1) ELSE done,
               Tail(rest))
  ELSE Canon(Append(done, Head(rest)), Tail(rest))

InsideRoot(target) ==
  LET file == Canon(<< "/" >>, Tail(target))
  IN /\ Len(file) > Len(ProjectBase)
     /\ SubSeq(file, 1, Len(ProjectBase)) = ProjectBase

\* C39: every file the restore commands wrote lies inside the project root.
C39_WritesInsideRoot ==
  \A target \in DOMAIN unit.project : InsideRoot(target)

\* C40: a restore_checkpoint_files that returns an error has modified no file
\* of the project.
C40_AllOrNothing ==
  [][ (unit'.last.op = "restore_checkpoint_files" /\ unit'.last.result # "ok") =>
        unit'.project = unit.project ]_vars

====
